---- MODULE Spec2Model ----
(***************************************************************************)
(* Weather-aware calendar scheduling bot (src/main.py): the LangGraph      *)
(* workflow, its routers, the per-chat conversation context and the        *)
(* Telegram message handler with its two clarification resolvers.          *)
(*                                                                         *)
(* Text is a sequence of one-character strings, so that strip(), lower(),  *)
(* split() and the substring tests of the code are computed, not assumed.  *)
(* Confidence is held in hundredths (0.5 is 50).                           *)
(***************************************************************************)
EXTENDS Integers, Sequences, FiniteSets, TLC

\* ------------------------------------------------------------------ bounds
\* The clock stops at MaxNow seconds and moves in steps of TickStep seconds.
MaxNow == 900
TickStep == 300
\* Handler invocations that may be in flight at once in SpecOverlap.
MaxTurns == 2
\* the temperatures, in whole degrees Celsius, the advice line is tried on
MinTemp == 15
MaxTemp == 35
\* the days, before and after today, the date reference is tried on
MaxDayDiff == 8

\* ------------------------------------------------------------------- text
IsSpace(ch) == ch \in {" ", "\t", "\n"}

UpperCase == <<"A","B","C","D","E","F","G","H","I","J","K","L","M",
               "N","O","P","Q","R","S","T","U","V","W","X","Y","Z">>
LowerCase == <<"a","b","c","d","e","f","g","h","i","j","k","l","m",
               "n","o","p","q","r","s","t","u","v","w","x","y","z">>

\* str.lower(), one character
LowerChar(ch) ==
  IF \E i \in 1..26 : UpperCase[i] = ch
    THEN LowerCase[CHOOSE i \in 1..26 : UpperCase[i] = ch]
    ELSE ch

\* str.lower()
Lower(s) == [i \in 1..Len(s) |-> LowerChar(s[i])]

\* str.strip()
Strip(s) ==
  LET keep == {i \in 1..Len(s) : ~IsSpace(s[i])}
  IN  IF keep = {} THEN <<>>
      ELSE LET lo == CHOOSE i \in keep : \A j \in keep : i <= j
               hi == CHOOSE i \in keep : \A j \in keep : j <= i
           IN  SubSeq(s, lo, hi)

\* len(str.split()): the number of maximal runs of non-space characters
SplitCount(s) ==
  Cardinality({i \in 1..Len(s) :
                 ~IsSpace(s[i]) /\ (i = 1 \/ IsSpace(s[i - 1]))})

\* `word in s` on strings: substring test
Contains(s, word) ==
  \E i \in 1..(Len(s) - Len(word) + 1) : SubSeq(s, i, i + Len(word) - 1) = word

\* any(word in s for word in words)
ContainsAny(s, words) == \E k \in 1..Len(words) : Contains(s, words[k])

\* str.replace(old, new): every occurrence, left to right, not overlapping
RECURSIVE Replace(_, _, _)
Replace(s, old, new) ==
  IF Len(s) < Len(old) THEN s
  ELSE IF SubSeq(s, 1, Len(old)) = old
    THEN new \o Replace(SubSeq(s, Len(old) + 1, Len(s)), old, new)
    ELSE <<s[1]>> \o Replace(Tail(s), old, new)

\* ------------------------------------------------------- dates as text
DigitChars == <<"0","1","2","3","4","5","6","7","8","9">>

IsDigit(ch) == \E i \in 1..10 : DigitChars[i] = ch

DigitValue(ch) == (CHOOSE i \in 1..10 : DigitChars[i] = ch) - 1

AllDigits(s) == \A i \in 1..Len(s) : IsDigit(s[i])

\* int() of a text of digits
RECURSIVE Number(_)
Number(s) ==
  IF s = <<>> THEN 0
  ELSE 10 * Number(SubSeq(s, 1, Len(s) - 1)) + DigitValue(s[Len(s)])

\* "%02d" and "%04d"
TwoDigitText(n) == <<DigitChars[(n \div 10) + 1], DigitChars[(n % 10) + 1]>>
FourDigitText(n) == TwoDigitText(n \div 100) \o TwoDigitText(n % 100)

\* strftime("%B")
MonthName(month) ==
  << <<"J","a","n","u","a","r","y">>, <<"F","e","b","r","u","a","r","y">>,
     <<"M","a","r","c","h">>, <<"A","p","r","i","l">>, <<"M","a","y">>,
     <<"J","u","n","e">>, <<"J","u","l","y">>, <<"A","u","g","u","s","t">>,
     <<"S","e","p","t","e","m","b","e","r">>, <<"O","c","t","o","b","e","r">>,
     <<"N","o","v","e","m","b","e","r">>, <<"D","e","c","e","m","b","e","r">> >>[month]

DaysInMonth(year, month) ==
  IF month = 2
    THEN IF year % 4 = 0 /\ (year % 100 # 0 \/ year % 400 = 0) THEN 29 ELSE 28
    ELSE IF month \in {4, 6, 9, 11} THEN 30 ELSE 31

\* a datetime; NoDatetime stands for the ValueError of fromisoformat
NoDatetime ==
  [ok |-> FALSE, year |-> 0, month |-> 0, day |-> 0, hour |-> 0, minute |-> 0,
   second |-> 0]

\* datetime.isoformat() of a naive datetime without microseconds
isoformat(year, month, day, hour, minute, second) ==
  FourDigitText(year) \o <<"-">> \o TwoDigitText(month) \o <<"-">>
    \o TwoDigitText(day) \o <<"T">> \o TwoDigitText(hour) \o <<":">>
    \o TwoDigitText(minute) \o <<":">> \o TwoDigitText(second)

\* the "+HH:MM" or "-HH:MM" that may end an ISO text
IsOffset(s) ==
  /\ Len(s) = 6 /\ s[1] \in {"+", "-"} /\ s[4] = ":"
  /\ AllDigits(SubSeq(s, 2, 3)) /\ AllDigits(SubSeq(s, 5, 6))
  /\ Number(SubSeq(s, 2, 3)) <= 23 /\ Number(SubSeq(s, 5, 6)) <= 59

\* datetime.fromisoformat: "YYYY-MM-DD", then optionally any one separator
\* and "HH:MM" or "HH:MM:SS", then optionally an offset; every field in range
fromisoformat(text) ==
  LET n == Len(text)
      body == IF n \in {22, 25} /\ IsOffset(SubSeq(text, n - 5, n))
                THEN SubSeq(text, 1, n - 6) ELSE text
      m == Len(body)
      dateOk == /\ m >= 10
                /\ AllDigits(SubSeq(body, 1, 4)) /\ body[5] = "-"
                /\ AllDigits(SubSeq(body, 6, 7)) /\ body[8] = "-"
                /\ AllDigits(SubSeq(body, 9, 10))
      timeOk == \/ m = 10
                \/ /\ m \in {16, 19}
                   /\ AllDigits(SubSeq(body, 12, 13)) /\ body[14] = ":"
                   /\ AllDigits(SubSeq(body, 15, 16))
                   /\ m = 19 => body[17] = ":" /\ AllDigits(SubSeq(body, 18, 19))
  IN  IF ~(dateOk /\ timeOk) THEN NoDatetime
      ELSE LET year == Number(SubSeq(body, 1, 4))
               month == Number(SubSeq(body, 6, 7))
               day == Number(SubSeq(body, 9, 10))
               hour == IF m >= 16 THEN Number(SubSeq(body, 12, 13)) ELSE 0
               minute == IF m >= 16 THEN Number(SubSeq(body, 15, 16)) ELSE 0
               second == IF m = 19 THEN Number(SubSeq(body, 18, 19)) ELSE 0
           IN  IF /\ year >= 1 /\ month \in 1..12
                  /\ day >= 1 /\ day <= DaysInMonth(year, IF month \in 1..12 THEN month ELSE 1)
                  /\ hour <= 23 /\ minute <= 59 /\ second <= 59
                 THEN [ok |-> TRUE, year |-> year, month |-> month, day |-> day,
                       hour |-> hour, minute |-> minute, second |-> second]
                 ELSE NoDatetime

\* strftime("%d %B %Y")
DateText(dt) ==
  TwoDigitText(dt.day) \o <<" ">> \o MonthName(dt.month) \o <<" ">>
    \o FourDigitText(dt.year)

\* strftime("%I:%M %p")
TimeText(dt) ==
  TwoDigitText(IF dt.hour % 12 = 0 THEN 12 ELSE dt.hour % 12) \o <<":">>
    \o TwoDigitText(dt.minute) \o <<" ">>
    \o (IF dt.hour < 12 THEN <<"A","M">> ELSE <<"P","M">>)

\* format_datetime_human_readable leaving the time out whenever the hour is 0
format_datetime_human_readable_hour_only(datetime_str) ==
  LET dt == fromisoformat(Replace(datetime_str, <<"Z">>, <<"+","0","0",":","0","0">>))
  IN  IF ~dt.ok THEN datetime_str
      ELSE IF dt.hour = 0 THEN DateText(dt)
      ELSE Replace(DateText(dt) \o <<",", " ">> \o TimeText(dt), <<" ","0">>, <<" ">>)

\* format_datetime_human_readable: the except returns the input
format_datetime_human_readable(datetime_str) ==
  LET dt == fromisoformat(Replace(datetime_str, <<"Z">>, <<"+","0","0",":","0","0">>))
  IN  IF ~dt.ok THEN datetime_str
      ELSE IF dt.hour = 0 /\ dt.minute = 0 THEN DateText(dt)
      ELSE Replace(DateText(dt) \o <<",", " ">> \o TimeText(dt), <<" ","0">>, <<" ">>)

\* ------------------------------------------------------------ data models
\* IntentExtraction; NoIntent stands for None
NoIntent ==
  [activity |-> "None", confidence |-> 0, is_weather_query |-> FALSE,
   has_specific_time |-> FALSE, day |-> 0, hour |-> 0, minute |-> 0,
   second |-> 0]

\* an IntentExtraction whose datetime_str is day d at h:m:sec
IntentAt(a, c, wq, hst, d, h, m, sec) ==
  [activity |-> a, confidence |-> c, is_weather_query |-> wq,
   has_specific_time |-> hst, day |-> d, hour |-> h, minute |-> m,
   second |-> sec]

\* an IntentExtraction whose datetime_str is day d at h o'clock
Intent(a, c, wq, hst, d, h) == IntentAt(a, c, wq, hst, d, h, 0, 0)

\* WeatherData; NoWeather stands for None
NoWeather ==
  [temperature |-> 0, description |-> "None", is_rainy |-> FALSE, humidity |-> 0]

\* a fallback of get_weather_forecast that reports rain
FallbackWeather_rainy ==
  [temperature |-> 25, description |-> "light rain", is_rainy |-> TRUE,
   humidity |-> 70]

\* the observation get_weather_forecast returns when the provider call fails
FallbackWeather ==
  [temperature |-> 25, description |-> "clear sky", is_rainy |-> FALSE,
   humidity |-> 70]

\* the date of datetime.now(): the clock never leaves its first day
Today == 1

\* a fallback of extract_intent that claims confidence 0.9
FailedExtraction_confident == Intent("unknown", 90, FALSE, FALSE, Today, 0)

\* the intent extract_intent returns when the model call or the parse fails;
\* its datetime_str is the time of the call, taken here at the start of Today
FailedExtraction == Intent("unknown", 0, FALSE, FALSE, Today, 0)

\* what the language model may answer: every route of the workflow, both
\* sides of each confidence threshold (0.1, 0.5, 0.7), weather queries of
\* every routing class, and times with minutes and seconds on the day of the
\* original request and on another day
ExtractedIntents ==
  { Intent("casual conversation", 10, FALSE, FALSE, Today, 0),
    Intent("casual conversation", 50, FALSE, FALSE, Today, 0),
    Intent("casual conversation", 90, FALSE, FALSE, Today, 0),
    Intent("unknown", 90, FALSE, FALSE, Today, 0),
    Intent("run", 50, FALSE, TRUE, Today + 1, 15),
    Intent("weather query", 90, TRUE, FALSE, Today, 0),
    Intent("run", 90, FALSE, FALSE, Today + 1, 0),
    Intent("run", 70, FALSE, TRUE, Today + 1, 15),
    Intent("run", 90, FALSE, TRUE, Today + 1, 15),
    Intent("unknown", 90, TRUE, FALSE, Today, 0),
    Intent("run", 90, TRUE, TRUE, Today + 1, 15),
    Intent("run", 50, TRUE, TRUE, Today + 1, 15),
    IntentAt("run", 90, FALSE, TRUE, Today + 1, 15, 30, 45),
    IntentAt("run", 90, FALSE, TRUE, Today, 18, 30, 45) }

\* what the weather provider may answer
ProviderWeather ==
  { [temperature |-> 31, description |-> "clear sky", is_rainy |-> FALSE,
     humidity |-> 60],
    [temperature |-> 24, description |-> "light rain", is_rainy |-> TRUE,
     humidity |-> 90] }

\* AgentState as handle_message and the resolver build it
InitialState(msg, intent) ==
  [user_message |-> msg, intent |-> intent, weather |-> NoWeather,
   calendar_event_created |-> FALSE, response_message |-> "",
   needs_clarification |-> FALSE]

\* ---------------------------------------------------------------- routers
\* should_check_weather with the confidence test made inclusive
should_check_weather_inclusive(state) ==
  IF state.intent # NoIntent
       /\ state.intent.activity = "casual conversation"
       /\ state.intent.confidence <= 10
    THEN "casual_conversation"
  ELSE IF state.intent # NoIntent
       /\ state.intent.confidence >= 50
       /\ state.intent.activity \notin {"unknown", "casual conversation"}
    THEN IF state.intent.is_weather_query THEN "weather_query"
         ELSE IF ~state.intent.has_specific_time THEN "request_time_clarification"
         ELSE "check_weather"
  ELSE "request_clarification"

\* should_check_weather without the test of is_weather_query
should_check_weather_ignores_query(state) ==
  IF state.intent # NoIntent
       /\ state.intent.activity = "casual conversation"
       /\ state.intent.confidence <= 10
    THEN "casual_conversation"
  ELSE IF state.intent # NoIntent
       /\ state.intent.confidence > 50
       /\ state.intent.activity \notin {"unknown", "casual conversation"}
    THEN IF ~state.intent.has_specific_time THEN "request_time_clarification"
         ELSE "check_weather"
  ELSE "request_clarification"

\* should_check_weather without the branch for casual conversation
should_check_weather_no_casual(state) ==
  IF state.intent # NoIntent
       /\ state.intent.confidence > 50
       /\ state.intent.activity \notin {"unknown", "casual conversation"}
    THEN IF state.intent.is_weather_query THEN "weather_query"
         ELSE IF ~state.intent.has_specific_time THEN "request_time_clarification"
         ELSE "check_weather"
  ELSE "request_clarification"

\* should_check_weather taking only confidence below 0.1 for casual
should_check_weather_casual_strict(state) ==
  IF state.intent # NoIntent
       /\ state.intent.activity = "casual conversation"
       /\ state.intent.confidence < 10
    THEN "casual_conversation"
  ELSE IF state.intent # NoIntent
       /\ state.intent.confidence > 50
       /\ state.intent.activity \notin {"unknown", "casual conversation"}
    THEN IF state.intent.is_weather_query THEN "weather_query"
         ELSE IF ~state.intent.has_specific_time THEN "request_time_clarification"
         ELSE "check_weather"
  ELSE "request_clarification"

should_check_weather(state) ==
  IF state.intent # NoIntent
       /\ state.intent.activity = "casual conversation"
       /\ state.intent.confidence <= 10
    THEN "casual_conversation"
  ELSE IF state.intent # NoIntent
       /\ state.intent.confidence > 50
       /\ state.intent.activity \notin {"unknown", "casual conversation"}
    THEN IF state.intent.is_weather_query THEN "weather_query"
         ELSE IF ~state.intent.has_specific_time THEN "request_time_clarification"
         ELSE "check_weather"
  ELSE "request_clarification"

\* should_create_event taking absent weather for fair weather
should_create_event_optimistic(state) ==
  IF state.weather = NoWeather \/ ~state.weather.is_rainy
    THEN "create_event"
    ELSE "request_clarification"

\* should_create_event going on whatever the observation says
should_create_event_ignores_rain(state) ==
  IF state.weather # NoWeather
    THEN "create_event"
    ELSE "request_clarification"

should_create_event(state) ==
  IF state.weather # NoWeather /\ ~state.weather.is_rainy
    THEN "create_event"
    ELSE "request_clarification"

\* an entry point set past the extraction
EntryPoint_check_weather == "check_weather"

\* workflow.set_entry_point
EntryPoint == "extract_intent"

\* ------------------------------------------------------------ fixed tables
scheduling_keywords ==
  << <<"w","a","n","t">>,
     <<"s","c","h","e","d","u","l","e">>,
     <<"p","l","a","n">>,
     <<"b","o","o","k">>,
     <<"a","t">>,
     <<"t","o","m","o","r","r","o","w">>,
     <<"t","o","d","a","y">>,
     <<"t","h","i","s">>,
     <<"n","e","x","t">> >>

proceed_words ==
  << <<"1">>,
     <<"p","r","o","c","e","e","d">>,
     <<"y","e","s">>,
     <<"c","o","n","t","i","n","u","e">>,
     <<"a","n","y","w","a","y">> >>

\* reschedule_words without "later"
reschedule_words_short ==
  << <<"2">>,
     <<"r","e","s","c","h","e","d","u","l","e">>,
     <<"d","i","f","f","e","r","e","n","t">>,
     <<"c","h","a","n","g","e">> >>

reschedule_words ==
  << <<"2">>,
     <<"r","e","s","c","h","e","d","u","l","e">>,
     <<"d","i","f","f","e","r","e","n","t">>,
     <<"l","a","t","e","r">>,
     <<"c","h","a","n","g","e">> >>

cancel_words ==
  << <<"3">>,
     <<"c","a","n","c","e","l">>,
     <<"n","o">>,
     <<"d","o","n","'","t">>,
     <<"s","k","i","p">> >>

greeting_words ==
  << <<"h","e","l","l","o">>,
     <<"h","i">>,
     <<"h","e","y">>,
     <<"g","o","o","d"," ","m","o","r","n","i","n","g">>,
     <<"g","o","o","d"," ","a","f","t","e","r","n","o","o","n">>,
     <<"g","o","o","d"," ","e","v","e","n","i","n","g">> >>

question_words ==
  << <<"h","o","w"," ","a","r","e"," ","y","o","u">>,
     <<"w","h","a","t","'","s"," ","u","p">>,
     <<"h","o","w","'","s"," ","i","t"," ","g","o","i","n","g">> >>

thanks_words ==
  << <<"t","h","a","n","k">>,
     <<"t","h","a","n","k","s">>,
     <<"a","p","p","r","e","c","i","a","t","e">> >>

\* the texts the transport may deliver (update.message.text, before strip)
\* MsgNone: an update without text, or with the empty text
MsgNone == <<>>
MsgPadded == <<" ","3"," ">>
Msg1 == <<"1">>
Msg2 == <<"2">>
Msg3 == <<"3">>
Msg3pm == <<" ","3","p","m">>
MsgProceed == <<"p","r","o","c","e","e","d">>
MsgLater == <<"l","a","t","e","r">>
MsgCancel == <<"C","a","n","c","e","l">>
MsgHello == <<"h","e","l","l","o">>
MsgYesOrNo == <<"y","e","s"," ","o","r"," ","n","o">>
MsgNoLater == <<"n","o",","," ","l","a","t","e","r">>
MsgGoForARun == <<"g","o"," ","f","o","r"," ","a"," ","r","u","n">>
MsgNewRequest ==
  <<"I"," ","w","a","n","t"," ","t","o"," ","g","o"," ","f","o","r"," ","a"," ",
    "r","u","n"," ","t","o","m","o","r","r","o","w"," ","a","t"," ","5","p","m">>

MsgRunAt5pm == <<"r","u","n"," ","a","t"," ","5","p","m">>
MsgWhatANiceDay == <<"w","h","a","t"," ","a"," ","n","i","c","e"," ","d","a","y">>

InboundTexts ==
  {MsgNone, MsgPadded, Msg1, Msg2, Msg3, Msg3pm, MsgProceed, MsgLater, MsgCancel, MsgHello,
   MsgYesOrNo, MsgNoLater, MsgGoForARun,
   MsgNewRequest, MsgRunAt5pm, MsgWhatANiceDay}

Chats == {1}
Slots == 1..MaxTurns

\* the words the resolver splices into its combined message
ActivityText(a) ==
  CASE a = "run" -> <<"r","u","n">>
    [] a = "unknown" -> <<"u","n","k","n","o","w","n">>
    [] a = "casual conversation" ->
         <<"c","a","s","u","a","l"," ","c","o","n","v","e","r","s","a","t","i","o","n">>
    [] a = "weather query" ->
         <<"w","e","a","t","h","e","r"," ","q","u","e","r","y">>

\* strftime("%A"); day 1 is taken to be a Monday
WeekdayName(day) ==
  << <<"M","o","n","d","a","y">>, <<"T","u","e","s","d","a","y">>,
     <<"W","e","d","n","e","s","d","a","y">>, <<"T","h","u","r","s","d","a","y">>,
     <<"F","r","i","d","a","y">>, <<"S","a","t","u","r","d","a","y">>,
     <<"S","u","n","d","a","y">> >>[((day - 1) % 7) + 1]

\* date_reference without the word for the day before
date_reference_no_yesterday(original_day, today) ==
  IF original_day = today THEN <<"t","o","d","a","y">>
  ELSE IF original_day - today = 1 THEN <<"t","o","m","o","r","r","o","w">>
  ELSE WeekdayName(original_day)

\* the relative date reference of handle_time_clarification_response
date_reference(original_day, today) ==
  IF original_day = today THEN <<"t","o","d","a","y">>
  ELSE IF original_day - today = 1 THEN <<"t","o","m","o","r","r","o","w">>
  ELSE IF original_day - today = -1 THEN <<"y","e","s","t","e","r","d","a","y">>
  ELSE WeekdayName(original_day)

combined_message(original_intent, today, user_message) ==
  <<"I"," ","w","a","n","t"," ","t","o"," ">> \o ActivityText(original_intent.activity)
    \o <<" ">> \o date_reference(original_intent.day, today)
    \o <<" ","a","t"," ">> \o user_message

\* ----------------------------------------------------------------- state
\* now: time.time(), in seconds.
\* conversation_context: TelegramBot.conversation_context, per chat id.
\* turn: the invocations of handle_message, per slot. Of a turn, pc is the
\* place it is suspended at, state the AgentState of its workflow run,
\* context the entry its resolver took from conversation_context, handed the
\* intent its resolver put into the workflow's initial state; the rest
\* records what the turn saw and did: updated the intent its resolver
\* extracted from the combined message, entry0 the chat's entry when the
\* message arrived, found the entry left by the sweep, override whether the
\* entry was discarded for a new request, visited the nodes run, replies the
\* texts sent, calendar_calls the intents given to create_event, raised
\* whether an exception was raised.
VARIABLES now, conversation_context, turn

vars == <<now, conversation_context, turn>>

\* an absent key of conversation_context
NoEntry ==
  [original_intent |-> NoIntent, weather |-> NoWeather, waiting_for |-> "None",
   timestamp |-> 0]

\* seconds after which cleanup_old_contexts removes an entry
ContextTTL == 600

IdleTurn ==
  [pc |-> "idle", kind |-> "none", chat |-> 0, msg |-> <<>>,
   state |-> InitialState(<<>>, NoIntent), context |-> NoEntry,
   updated |-> NoIntent, handed |-> NoIntent, visited |-> <<>>,
   replies |-> <<>>,
   calendar_calls |-> <<>>, weather_calls |-> 0, entry0 |-> NoEntry,
   found |-> NoEntry, override |-> FALSE, raised |-> FALSE]

Init ==
  /\ now = 0
  /\ conversation_context = [c \in Chats |-> NoEntry]
  /\ turn = [s \in Slots |-> IdleTurn]

\* slot s is the one a new handler invocation takes
Free(s) == turn[s].pc = "idle" /\ \A r \in Slots : r < s => turn[r].pc # "idle"

\* cleanup_old_contexts removing an entry already at the age of ContextTTL
cleanup_old_contexts_inclusive(ctx, current_time) ==
  [c \in DOMAIN ctx |->
     IF ctx[c] # NoEntry /\ current_time - ctx[c].timestamp >= ContextTTL
       THEN NoEntry ELSE ctx[c]]

\* cleanup_old_contexts
cleanup_old_contexts(ctx, current_time) ==
  [c \in DOMAIN ctx |->
     IF ctx[c] # NoEntry /\ current_time - ctx[c].timestamp > ContextTTL
       THEN NoEntry ELSE ctx[c]]

\* LooksLikeNewRequest taking three tokens for a request already
LooksLikeNewRequest_three_tokens(user_message) ==
  /\ ContainsAny(Lower(user_message), scheduling_keywords)
  /\ SplitCount(user_message) >= 3

\* handle_message: "this looks like a new request"
LooksLikeNewRequest(user_message) ==
  /\ ContainsAny(Lower(user_message), scheduling_keywords)
  /\ SplitCount(user_message) > 3

\* Skipped letting one-character texts through
Skipped_empty_only(raw) == Len(raw) = 0 \/ Len(Strip(raw)) = 0

\* handle_message: the update is skipped before anything else runs
Skipped(raw) == Len(raw) = 0 \/ Len(Strip(raw)) < 2

\* the handler's state once it has taken the message
Taken(c, raw) ==
  [IdleTurn EXCEPT !.chat = c, !.msg = Strip(raw),
                   !.entry0 = conversation_context[c]]

\* handle_message, lines 617-632: a non-text, empty or one-character message
ReceiveSkipped(s, c, raw) ==
  /\ Free(s)
  /\ Skipped(raw)
  /\ turn' = [turn EXCEPT ![s] = [Taken(c, raw) EXCEPT !.pc = "done", !.kind = "skipped"]]
  /\ UNCHANGED <<now, conversation_context>>

\* handle_message, lines 634-663: no context, or a new request over an old
\* context: the workflow is invoked on a fresh state
ReceiveFresh(s, c, raw) ==
  LET swept == cleanup_old_contexts(conversation_context, now)
      user_message == Strip(raw)
  IN  /\ Free(s)
      /\ ~Skipped(raw)
      /\ swept[c] = NoEntry \/ LooksLikeNewRequest(user_message)
      /\ conversation_context' = [swept EXCEPT ![c] = NoEntry]
      /\ turn' = [turn EXCEPT ![s] =
           [Taken(c, raw) EXCEPT !.pc = EntryPoint, !.kind = "fresh",
              !.found = swept[c],
              !.state = InitialState(user_message, NoIntent),
              !.override = (swept[c] # NoEntry)]]
      /\ UNCHANGED now

\* handle_message and handle_clarification_response up to the await of
\* extract_intent in handle_time_clarification_response (lines 634-749)
ReceiveTimeReply(s, c, raw) ==
  LET swept == cleanup_old_contexts(conversation_context, now)
      user_message == Strip(raw)
  IN  /\ Free(s)
      /\ ~Skipped(raw)
      /\ swept[c] # NoEntry /\ ~LooksLikeNewRequest(user_message)
      /\ swept[c].waiting_for = "time_clarification"
      /\ conversation_context' = swept
      /\ turn' = [turn EXCEPT ![s] =
           [Taken(c, raw) EXCEPT !.pc = "reextract", !.kind = "time_reply",
              !.found = swept[c], !.context = swept[c],
              !.state = InitialState(
                 combined_message(swept[c].original_intent, Today, user_message),
                 NoIntent)]]
      /\ UNCHANGED now

\* what extract_intent may return: the model's answer, or the fallback
ExtractionResults == ExtractedIntents \cup {FailedExtraction}

\* what get_weather_forecast may return: the provider's answer, or the fallback
ForecastResults == ProviderWeather \cup {FallbackWeather}

\* authenticate() then create_event(): the event is inserted, or create_event
\* returns False, or authenticate raises on an unreadable token file
CalendarOutcomes == {"created", "failed", "raised"}

TimeEntry(intent, t) ==
  [original_intent |-> intent, weather |-> NoWeather,
   waiting_for |-> "time_clarification", timestamp |-> t]

\* a weather entry that is stamped with the start of the clock
WeatherEntry_stale(intent, weather, t) ==
  [original_intent |-> intent, weather |-> weather,
   waiting_for |-> "weather_clarification", timestamp |-> 0]

WeatherEntry(intent, weather, t) ==
  [original_intent |-> intent, weather |-> weather,
   waiting_for |-> "weather_clarification", timestamp |-> t]

\* a re-ask that stamps the entry with the time of the re-ask
ContextAfterReask_refreshed(ctx, c, t) ==
  IF ctx[c] # NoEntry THEN [ctx EXCEPT ![c].timestamp = t] ELSE ctx

\* the store after a resolver has asked again: "keep context for another
\* try" (lines 793-797 and 829-833), nothing is written
ContextAfterReask(ctx, c, t) == ctx

\* WeatherReplyClass testing the cancel words before the others
WeatherReplyClass_cancel_first(user_message) ==
  LET user_message_lower == Lower(user_message)
  IN  IF ContainsAny(user_message_lower, cancel_words) THEN "cancel"
      ELSE IF ContainsAny(user_message_lower, proceed_words) THEN "proceed"
      ELSE IF ContainsAny(user_message_lower, reschedule_words) THEN "reschedule"
      ELSE "unclear"

\* handle_weather_clarification_response: the branch a reply takes
WeatherReplyClass(user_message) ==
  LET user_message_lower == Lower(user_message)
  IN  IF ContainsAny(user_message_lower, proceed_words) THEN "proceed"
      ELSE IF ContainsAny(user_message_lower, reschedule_words) THEN "reschedule"
      ELSE IF ContainsAny(user_message_lower, cancel_words) THEN "cancel"
      ELSE "unclear"

\* handle_message, handle_clarification_response and the whole of
\* handle_weather_clarification_response: nothing in it suspends before the
\* context is deleted (lines 634-648, 705-717, 804-837)
ReceiveWeatherReply(s, c, raw) ==
  LET swept == cleanup_old_contexts(conversation_context, now)
      user_message == Strip(raw)
      context == swept[c]
      class == WeatherReplyClass(user_message)
      t0 == [Taken(c, raw) EXCEPT !.pc = "done", !.kind = "weather_reply",
                                  !.found = context, !.context = context]
  IN  /\ Free(s)
      /\ ~Skipped(raw)
      /\ swept[c] # NoEntry /\ ~LooksLikeNewRequest(user_message)
      /\ swept[c].waiting_for = "weather_clarification"
      /\ UNCHANGED now
      /\ \/ /\ class = "proceed"
            /\ \E outcome \in CalendarOutcomes :
                 IF outcome = "raised"
                   THEN /\ conversation_context' = swept
                        /\ turn' = [turn EXCEPT ![s] = [t0 EXCEPT !.raised = TRUE]]
                   ELSE /\ conversation_context' = [swept EXCEPT ![c] = NoEntry]
                        /\ turn' = [turn EXCEPT ![s] =
                             [t0 EXCEPT
                                !.calendar_calls = <<context.original_intent>>,
                                !.replies = <<IF outcome = "created"
                                                THEN "scheduled_despite_weather"
                                                ELSE "event_failed">>]]
         \/ /\ class = "reschedule"
            /\ conversation_context' = [swept EXCEPT ![c] = NoEntry]
            /\ turn' = [turn EXCEPT ![s] = [t0 EXCEPT !.replies = <<"reschedule_ask">>]]
         \/ /\ class = "cancel"
            /\ conversation_context' = [swept EXCEPT ![c] = NoEntry]
            /\ turn' = [turn EXCEPT ![s] = [t0 EXCEPT !.replies = <<"cancelled">>]]
         \/ /\ class = "unclear"
            /\ conversation_context' = ContextAfterReask(swept, c, now)
            /\ turn' = [turn EXCEPT ![s] = [t0 EXCEPT !.replies = <<"choices_reask">>]]

\* handle_time_clarification_response, line 751, with the threshold inclusive
TimeUnderstood_inclusive(updated_intent) ==
  updated_intent.has_specific_time /\ updated_intent.confidence >= 70

\* handle_time_clarification_response, line 751: the reply yielded a time
TimeUnderstood(updated_intent) ==
  updated_intent.has_specific_time /\ updated_intent.confidence > 70

\* the date correction that keeps the seconds of the re-extracted time
CorrectedIntent_keeps_seconds(updated_intent, original_intent) ==
  IF updated_intent.day # original_intent.day
    THEN [updated_intent EXCEPT !.day = original_intent.day]
    ELSE updated_intent

\* the date correction of handle_time_clarification_response (lines 753-764):
\* original_date.replace(hour, minute, second=0, microsecond=0)
CorrectedIntent(updated_intent, original_intent) ==
  IF updated_intent.day # original_intent.day
    THEN [updated_intent EXCEPT !.day = original_intent.day,
                                !.hour = updated_intent.hour,
                                !.minute = updated_intent.minute,
                                !.second = 0]
    ELSE updated_intent

\* handle_time_clarification_response, lines 749-778 and 793-796: the
\* re-extraction returns; the workflow is invoked, or the time is asked again
ReExtract(s) ==
  /\ turn[s].pc = "reextract"
  /\ \E updated_intent \in ExtractionResults :
       IF TimeUnderstood(updated_intent)
         THEN LET corrected ==
                    CorrectedIntent(updated_intent, turn[s].context.original_intent)
              IN  turn' = [turn EXCEPT ![s].pc = EntryPoint,
                                       ![s].updated = updated_intent,
                                       ![s].handed = corrected,
                                       ![s].state.intent = corrected]
         ELSE turn' = [turn EXCEPT ![s].pc = "done",
                                   ![s].updated = updated_intent,
                                   ![s].replies = Append(@, "time_reask")]
  /\ conversation_context' =
       IF turn'[s].pc = "done"
         THEN ContextAfterReask(conversation_context, turn[s].chat, now)
         ELSE conversation_context
  /\ UNCHANGED now

\* ------------------------------------------------------- workflow nodes
\* extract_intent_node, then the router should_check_weather
extract_intent_node(s) ==
  /\ turn[s].pc = "extract_intent"
  /\ \E intent \in ExtractionResults :
       LET state == [turn[s].state EXCEPT !.intent = intent]
       IN  turn' = [turn EXCEPT ![s].state = state,
                                ![s].visited = Append(@, "extract_intent"),
                                ![s].pc = should_check_weather(state)]
  /\ UNCHANGED <<now, conversation_context>>

\* check_weather_node, then the router should_create_event
check_weather_node(s) ==
  /\ turn[s].pc = "check_weather"
  /\ IF turn[s].state.intent = NoIntent
       THEN turn' = [turn EXCEPT ![s].visited = Append(@, "check_weather"),
                                 ![s].pc = should_create_event(turn[s].state)]
       ELSE \E weather \in ForecastResults :
              LET state == [turn[s].state EXCEPT !.weather = weather]
              IN  turn' = [turn EXCEPT ![s].state = state,
                                       ![s].weather_calls = @ + 1,
                                       ![s].visited = Append(@, "check_weather"),
                                       ![s].pc = should_create_event(state)]
  /\ UNCHANGED <<now, conversation_context>>

\* the advice line with the heat threshold inclusive
WeatherAdvice_hot_at_30(weather) ==
  IF weather.is_rainy THEN "weather_report_umbrella"
  ELSE IF weather.temperature >= 30 THEN "weather_report_hot"
  ELSE IF weather.temperature < 20 THEN "weather_report_cool"
  ELSE "weather_report_great"

\* the advice line of weather_query_node
WeatherAdvice(weather) ==
  IF weather.is_rainy THEN "weather_report_umbrella"
  ELSE IF weather.temperature > 30 THEN "weather_report_hot"
  ELSE IF weather.temperature < 20 THEN "weather_report_cool"
  ELSE "weather_report_great"

\* weather_query_node answering without asking the provider
weather_query_node_no_lookup(s) ==
  /\ turn[s].pc = "weather_query"
  /\ turn' = [turn EXCEPT ![s].state.response_message = "weather_report_great",
                          ![s].visited = Append(@, "weather_query"),
                          ![s].pc = "END"]
  /\ UNCHANGED <<now, conversation_context>>

weather_query_node(s) ==
  /\ turn[s].pc = "weather_query"
  /\ IF turn[s].state.intent = NoIntent
       THEN turn' = [turn EXCEPT ![s].state.response_message = "weather_not_understood",
                                 ![s].visited = Append(@, "weather_query"),
                                 ![s].pc = "END"]
       ELSE \E weather \in ForecastResults :
              turn' = [turn EXCEPT ![s].state.weather = weather,
                                   ![s].state.response_message = WeatherAdvice(weather),
                                   ![s].weather_calls = @ + 1,
                                   ![s].visited = Append(@, "weather_query"),
                                   ![s].pc = "END"]
  /\ UNCHANGED <<now, conversation_context>>

\* create_calendar_event_node calling create_event a second time when the
\* first call returned False
create_calendar_event_node_retry(s) ==
  /\ turn[s].pc = "create_event"
  /\ \E outcome \in CalendarOutcomes :
       IF outcome = "raised"
         THEN turn' = [turn EXCEPT
                ![s].visited = Append(@, "create_event"),
                ![s].raised = TRUE,
                ![s].replies = Append(@, IF turn[s].kind = "fresh"
                                           THEN "error_apology" ELSE "time_trouble"),
                ![s].pc = "done"]
         ELSE turn' = [turn EXCEPT
                ![s].state.calendar_event_created = (outcome = "created"),
                ![s].state.response_message =
                   IF outcome = "created" THEN "scheduled" ELSE "event_failed",
                ![s].calendar_calls =
                   IF outcome = "created"
                     THEN Append(@, turn[s].state.intent)
                     ELSE Append(Append(@, turn[s].state.intent), turn[s].state.intent),
                ![s].visited = Append(@, "create_event"),
                ![s].pc = "END"]
  /\ UNCHANGED <<now, conversation_context>>

\* create_calendar_event_node. When authenticate raises, ainvoke raises: a
\* fresh turn answers from the except of handle_message (lines 688-690), a
\* time reply from the except of the resolver (lines 799-802)
create_calendar_event_node(s) ==
  /\ turn[s].pc = "create_event"
  /\ \E outcome \in CalendarOutcomes :
       IF outcome = "raised"
         THEN turn' = [turn EXCEPT
                ![s].visited = Append(@, "create_event"),
                ![s].raised = TRUE,
                ![s].replies = Append(@, IF turn[s].kind = "fresh"
                                           THEN "error_apology" ELSE "time_trouble"),
                ![s].pc = "done"]
         ELSE turn' = [turn EXCEPT
                ![s].state.calendar_event_created = (outcome = "created"),
                ![s].state.response_message =
                   IF outcome = "created" THEN "scheduled" ELSE "event_failed",
                ![s].calendar_calls = Append(@, turn[s].state.intent),
                ![s].visited = Append(@, "create_event"),
                ![s].pc = "END"]
  /\ UNCHANGED <<now, conversation_context>>

\* request_time_clarification_node leaving needs_clarification as it was
request_time_clarification_node_silent(s) ==
  /\ turn[s].pc = "request_time_clarification"
  /\ turn' = [turn EXCEPT ![s].state.response_message = "time_question",
                          ![s].visited = Append(@, "request_time_clarification"),
                          ![s].pc = "END"]
  /\ UNCHANGED <<now, conversation_context>>

request_time_clarification_node(s) ==
  /\ turn[s].pc = "request_time_clarification"
  /\ turn' = [turn EXCEPT ![s].state.response_message = "time_question",
                          ![s].state.needs_clarification = TRUE,
                          ![s].visited = Append(@, "request_time_clarification"),
                          ![s].pc = "END"]
  /\ UNCHANGED <<now, conversation_context>>

\* the canned answer of casual_conversation_node
CasualResponse(user_message) ==
  LET user_message_lower == Lower(user_message)
  IN  IF ContainsAny(user_message_lower, greeting_words) THEN "casual_greeting"
      ELSE IF ContainsAny(user_message_lower, question_words) THEN "casual_doing_great"
      ELSE IF ContainsAny(user_message_lower, thanks_words) THEN "casual_welcome"
      ELSE "casual_generic"

casual_conversation_node(s) ==
  /\ turn[s].pc = "casual_conversation"
  /\ turn' = [turn EXCEPT
       ![s].state.response_message = CasualResponse(turn[s].state.user_message),
       ![s].visited = Append(@, "casual_conversation"),
       ![s].pc = "END"]
  /\ UNCHANGED <<now, conversation_context>>

\* the message of request_clarification_node with the confidence test
\* made strict
ClarificationMessage_strict(state) ==
  IF state.intent = NoIntent \/ state.intent.confidence < 50
       \/ state.intent.activity = "unknown"
    THEN "generic_clarify"
    ELSE "rain_choices"

\* the message of request_clarification_node
ClarificationMessage(state) ==
  IF state.intent = NoIntent \/ state.intent.confidence <= 50
       \/ state.intent.activity = "unknown"
    THEN "generic_clarify"
    ELSE "rain_choices"

request_clarification_node(s) ==
  /\ turn[s].pc = "request_clarification"
  /\ turn' = [turn EXCEPT
       ![s].state.response_message = ClarificationMessage(turn[s].state),
       ![s].state.needs_clarification = TRUE,
       ![s].visited = Append(@, "request_clarification"),
       ![s].pc = "END"]
  /\ UNCHANGED <<now, conversation_context>>

\* ------------------------------------------------- after the workflow
\* handle_message, lines 665-683: the context a fresh turn stores
ContextAfterFresh(ctx, c, final_state, t) ==
  IF final_state.needs_clarification /\ final_state.intent # NoIntent
    THEN IF final_state.intent.confidence > 50
              /\ ~final_state.intent.has_specific_time
           THEN [ctx EXCEPT ![c] = TimeEntry(final_state.intent, t)]
         ELSE IF final_state.intent.confidence > 50
              /\ final_state.weather # NoWeather /\ final_state.weather.is_rainy
           THEN [ctx EXCEPT ![c] = WeatherEntry(final_state.intent, final_state.weather, t)]
         ELSE ctx
    ELSE ctx

\* handle_message, lines 663-686: the workflow returned to a fresh turn
FinishFresh(s) ==
  /\ turn[s].pc = "END" /\ turn[s].kind = "fresh"
  /\ conversation_context' =
       ContextAfterFresh(conversation_context, turn[s].chat, turn[s].state, now)
  /\ turn' = [turn EXCEPT ![s].replies = Append(@, turn[s].state.response_message),
                          ![s].pc = "done"]
  /\ UNCHANGED now

\* NeedsWeatherClarification without the test of needs_clarification
NeedsWeatherClarification_any_rain(final_state) ==
  final_state.weather # NoWeather /\ final_state.weather.is_rainy

\* handle_time_clarification_response, line 781: a further clarification
NeedsWeatherClarification(final_state) ==
  /\ final_state.needs_clarification
  /\ final_state.weather # NoWeather /\ final_state.weather.is_rainy

\* handle_time_clarification_response, lines 778-802: the workflow returned
\* to the resolver. Deleting a key that is gone raises KeyError, which the
\* except of the resolver answers
FinishTimeReply(s) ==
  LET c == turn[s].chat
      final_state == turn[s].state
  IN  /\ turn[s].pc = "END" /\ turn[s].kind = "time_reply"
      /\ UNCHANGED now
      /\ IF NeedsWeatherClarification(final_state)
           THEN /\ conversation_context' =
                     [conversation_context EXCEPT
                        ![c] = WeatherEntry(final_state.intent, final_state.weather, now)]
                /\ turn' = [turn EXCEPT
                     ![s].replies = Append(@, final_state.response_message),
                     ![s].pc = "done"]
         ELSE IF conversation_context[c] # NoEntry
           THEN /\ conversation_context' = [conversation_context EXCEPT ![c] = NoEntry]
                /\ turn' = [turn EXCEPT
                     ![s].replies = Append(@, final_state.response_message),
                     ![s].pc = "done"]
         ELSE /\ UNCHANGED conversation_context
              /\ turn' = [turn EXCEPT ![s].raised = TRUE,
                                      ![s].replies = Append(@, "time_trouble"),
                                      ![s].pc = "done"]

\* ------------------------------------------------------- environment
\* time passes
Tick ==
  /\ now + TickStep <= MaxNow
  /\ now' = now + TickStep
  /\ UNCHANGED <<conversation_context, turn>>

\* the handler invocation has returned
Return(s) ==
  /\ turn[s].pc = "done"
  /\ turn' = [turn EXCEPT ![s] = IdleTurn]
  /\ UNCHANGED <<now, conversation_context>>

\* the transport delivers a text to handle_message
Receive(s, texts) ==
  \E c \in Chats, raw \in texts :
     \/ ReceiveSkipped(s, c, raw)
     \/ ReceiveFresh(s, c, raw)
     \/ ReceiveTimeReply(s, c, raw)
     \/ ReceiveWeatherReply(s, c, raw)

\* one step of a handler invocation that is under way
Step(s) ==
  \/ ReExtract(s)
  \/ extract_intent_node(s)
  \/ check_weather_node(s)
  \/ weather_query_node(s)
  \/ create_calendar_event_node(s)
  \/ request_time_clarification_node(s)
  \/ casual_conversation_node(s)
  \/ request_clarification_node(s)
  \/ FinishFresh(s)
  \/ FinishTimeReply(s)
  \/ Return(s)

\* the dispatcher handles one update at a time: one slot is ever in use
Next ==
  \/ Tick
  \/ Receive(1, InboundTexts)
  \/ Step(1)

Spec == Init /\ [][Next]_vars

\* the texts of the turns whose progress is checked
RunTexts == {Msg1, MsgProceed, MsgLater, MsgCancel, MsgGoForARun}

\* turns one after another at one instant
NextRun ==
  \/ Receive(1, RunTexts)
  \/ Step(1)

\* a handler under way goes on: every awaited call returns or raises, and
\* the event loop resumes the handler
SpecRun == Init /\ [][NextRun]_vars /\ WF_vars(Step(1))

\* the part of the environment exercised when handlers overlap
OverlapTexts == {Msg1, Msg3pm, MsgProceed, MsgNewRequest}
OverlapIntents ==
  { Intent("casual conversation", 10, FALSE, FALSE, Today, 0),
    Intent("weather query", 90, TRUE, FALSE, Today, 0),
    Intent("run", 90, FALSE, FALSE, Today + 1, 0),
    Intent("run", 90, FALSE, TRUE, Today + 1, 15) }
OverlapEnv ==
  /\ now <= TickStep
  /\ \A s \in Slots :
       /\ turn[s].state.intent \in OverlapIntents \cup {NoIntent}
       /\ turn[s].state.weather \in {NoWeather, FallbackWeather}
                                      \cup {w \in ProviderWeather : w.is_rainy}

\* handlers overlap: an update is taken while others are suspended
NextOverlap ==
  \/ Tick /\ OverlapEnv'
  \/ \E s \in Slots, c \in Chats, raw \in OverlapTexts :
       \/ ReceiveSkipped(s, c, raw) /\ OverlapEnv'
       \/ ReceiveFresh(s, c, raw) /\ OverlapEnv'
       \/ ReceiveTimeReply(s, c, raw) /\ OverlapEnv'
       \/ ReceiveWeatherReply(s, c, raw) /\ OverlapEnv'
  \/ \E s \in Slots :
       \/ ReExtract(s) /\ OverlapEnv'
       \/ extract_intent_node(s) /\ OverlapEnv'
       \/ check_weather_node(s) /\ OverlapEnv'
       \/ weather_query_node(s) /\ OverlapEnv'
       \/ create_calendar_event_node(s) /\ OverlapEnv'
       \/ request_time_clarification_node(s) /\ OverlapEnv'
       \/ casual_conversation_node(s) /\ OverlapEnv'
       \/ request_clarification_node(s) /\ OverlapEnv'
       \/ FinishFresh(s) /\ OverlapEnv'
       \/ FinishTimeReply(s) /\ OverlapEnv'
       \/ Return(s) /\ OverlapEnv'

SpecOverlap == Init /\ [][NextOverlap]_vars

\* ------------------------------------------------------ two conversations
\* the chat ids of two conversations
TwoChats == {1, 2}

\* the part of the environment exercised with two conversations
ChatsTexts == {Msg1, Msg3pm, MsgProceed}
ChatsEnv ==
  \A s \in Slots :
     /\ turn[s].state.intent \in OverlapIntents \cup {NoIntent}
     /\ turn[s].state.weather \in {NoWeather, FallbackWeather}
                                    \cup {w \in ProviderWeather : w.is_rainy}

\* the turns of one conversation are handled one after another
OneTurnPerChat(c) == \A r \in Slots : turn[r].pc # "idle" => turn[r].chat # c

InitChats ==
  /\ now = 0
  /\ conversation_context = [c \in TwoChats |-> NoEntry]
  /\ turn = [s \in Slots |-> IdleTurn]

\* the handlers of two conversations overlap, those of one do not
NextChats ==
  \/ Tick /\ ChatsEnv'
  \/ \E s \in Slots, c \in TwoChats, raw \in ChatsTexts :
       /\ OneTurnPerChat(c)
       /\ \/ ReceiveSkipped(s, c, raw) /\ ChatsEnv'
          \/ ReceiveFresh(s, c, raw) /\ ChatsEnv'
          \/ ReceiveTimeReply(s, c, raw) /\ ChatsEnv'
          \/ ReceiveWeatherReply(s, c, raw) /\ ChatsEnv'
  \/ \E s \in Slots :
       \/ ReExtract(s) /\ ChatsEnv'
       \/ extract_intent_node(s) /\ ChatsEnv'
       \/ check_weather_node(s) /\ ChatsEnv'
       \/ weather_query_node(s) /\ ChatsEnv'
       \/ create_calendar_event_node(s) /\ ChatsEnv'
       \/ request_time_clarification_node(s) /\ ChatsEnv'
       \/ casual_conversation_node(s) /\ ChatsEnv'
       \/ request_clarification_node(s) /\ ChatsEnv'
       \/ FinishFresh(s) /\ ChatsEnv'
       \/ FinishTimeReply(s) /\ ChatsEnv'
       \/ Return(s) /\ ChatsEnv'

SpecChats == InitChats /\ [][NextChats]_vars

\* ------------------------------------------------ the sweep at the limit
\* entries handle_message and the time resolver store, stamped at time 0
StoredEntries ==
  { TimeEntry(Intent("run", 90, FALSE, FALSE, Today + 1, 0), 0),
    WeatherEntry(Intent("run", 90, FALSE, TRUE, Today + 1, 15),
                 [temperature |-> 24, description |-> "light rain",
                  is_rainy |-> TRUE, humidity |-> 90], 0) }

\* the ages around the limit of cleanup_old_contexts
SweepAges == {ContextTTL - 1, ContextTTL, ContextTTL + 1}

\* a message arrives when the chat's entry is about ContextTTL seconds old
InitSweep ==
  /\ now \in SweepAges
  /\ conversation_context \in [Chats -> StoredEntries]
  /\ turn = [s \in Slots |-> IdleTurn]

SpecSweep == InitSweep /\ [][Next]_vars

\* ------------------------------------------ the router after check_weather
\* the AgentState values should_create_event may be given: intent and
\* weather are both Optional
RouterStates ==
  { [InitialState(MsgGoForARun, intent) EXCEPT !.weather = weather] :
      intent \in ExtractionResults \cup {NoIntent},
      weather \in ForecastResults \cup {NoWeather} }

InitRoute ==
  /\ now = 0
  /\ conversation_context = [c \in Chats |-> NoEntry]
  /\ \E state \in RouterStates :
       turn = [s \in Slots |->
                 IF s = 1
                   THEN [IdleTurn EXCEPT !.pc = "should_create_event",
                                         !.state = state]
                   ELSE IdleTurn]

\* the conditional edge out of check_weather: should_create_event is applied
ApplyShouldCreateEvent(s) ==
  /\ turn[s].pc = "should_create_event"
  /\ turn' = [turn EXCEPT ![s].pc = should_create_event(turn[s].state)]
  /\ UNCHANGED <<now, conversation_context>>

NextRoute == ApplyShouldCreateEvent(1)

SpecRoute == InitRoute /\ [][NextRoute]_vars

\* ----------------------------------------------- functions on their own
\* observations of every temperature, rainy and not
AdviceObservations ==
  { [temperature |-> t, description |-> IF r THEN "light rain" ELSE "clear sky",
     is_rainy |-> r, humidity |-> 70] : t \in MinTemp..MaxTemp, r \in BOOLEAN }

\* a turn about to apply the function named by its kind to its state
FunctionTurn(pc, kind, state) ==
  [IdleTurn EXCEPT !.pc = pc, !.kind = kind, !.state = state]

\* weather_query_node at the point where the advice line is chosen
AdviceInputs ==
  { FunctionTurn("apply", "weather_advice",
       [InitialState(MsgHello, Intent("weather query", 90, TRUE, FALSE, Today, 0))
          EXCEPT !.weather = weather]) : weather \in AdviceObservations }

\* intents of every activity class, on both sides of the thresholds 0.1 and
\* 0.5, with every combination of the two flags; and the absent intent
FunctionIntents ==
  { IntentAt(a, c, wq, hst, Today + 1, 15, 0, 0) :
      a \in {"casual conversation", "unknown", "run", "weather query"},
      c \in {0, 10, 11, 50, 51, 90}, wq \in BOOLEAN, hst \in BOOLEAN }
    \cup {NoIntent}

\* the conditional edge out of extract_intent
RouterInputs ==
  { FunctionTurn("apply", "should_check_weather",
                 InitialState(MsgGoForARun, intent)) : intent \in FunctionIntents }

\* request_clarification_node on every intent, without an observation and
\* with a rainy one
ClarificationInputs ==
  { FunctionTurn("request_clarification", "request_clarification_node",
                 [InitialState(MsgGoForARun, intent) EXCEPT !.weather = weather]) :
      intent \in FunctionIntents,
      weather \in {NoWeather} \cup {w \in ProviderWeather : w.is_rainy} }

\* the time resolver at the point where the combined message is built: a
\* stored intent dated up to MaxDayDiff days before or after today, and the
\* reply to splice in
DateInputs ==
  { [FunctionTurn("apply", "combined_message",
        InitialState(reply, IntentAt(a, 90, FALSE, FALSE, Today + d, 0, 0, 0)))
       EXCEPT !.msg = reply] :
      a \in {"run", "unknown"}, d \in (0 - MaxDayDiff)..MaxDayDiff,
      reply \in {Strip(Msg3pm), MsgLater} }

\* texts that are no ISO date-time: words, the empty text, fields out of
\* range, a date in another notation
UnparsableTexts ==
  { <<"t","o","m","o","r","r","o","w">>, <<>>,
    <<"2","0","2","5","-","1","3","-","4","0","T","2","5",":","0","0",":","0","0">>,
    <<"2","0","2","5","-","0","2","-","3","0","T","1","0",":","0","0",":","0","0">>,
    <<"2","8"," ","M","a","y"," ","2","0","2","5">> }

\* format_datetime_human_readable on the datetime_str of an intent: the
\* model's answers and isoformat() give seconds, with or without a "Z"; a
\* date alone; and texts that do not parse. The intent of the turn keeps the
\* hour and minute the text was written from, NoIntent when there is none
FormatInputs ==
  { [FunctionTurn("apply", "format_datetime_human_readable",
        InitialState(isoformat(2025, mo, d, h, mi, sec) \o z,
                     IntentAt("run", 90, FALSE, TRUE, d, h, mi, sec)))
       EXCEPT !.msg = <<"?">>] :
      mo \in {5, 12}, d \in {5, 28}, h \in {0, 9, 12, 15, 23},
      mi \in {0, 5, 30}, sec \in {0, 45}, z \in {<<>>, <<"Z">>} }
  \cup
  { [FunctionTurn("apply", "format_datetime_human_readable",
        InitialState(SubSeq(isoformat(2025, 5, d, 0, 0, 0), 1, 10),
                     IntentAt("run", 90, FALSE, FALSE, d, 0, 0, 0)))
       EXCEPT !.msg = <<"?">>] : d \in {5, 28} }
  \cup
  { [FunctionTurn("apply", "format_datetime_human_readable",
        InitialState(text, NoIntent)) EXCEPT !.msg = <<"?">>] :
      text \in UnparsableTexts }

FunctionInputs ==
  AdviceInputs \cup RouterInputs \cup ClarificationInputs \cup DateInputs
    \cup FormatInputs

InitFunctions ==
  /\ now = 0
  /\ conversation_context = [c \in Chats |-> NoEntry]
  /\ \E t \in FunctionInputs :
       turn = [s \in Slots |-> IF s = 1 THEN t ELSE IdleTurn]

\* weather_query_node, lines 421-431: the advice line is chosen
ApplyWeatherAdvice(s) ==
  /\ turn[s].pc = "apply" /\ turn[s].kind = "weather_advice"
  /\ turn' = [turn EXCEPT
       ![s].state.response_message = WeatherAdvice(turn[s].state.weather),
       ![s].pc = "END"]
  /\ UNCHANGED <<now, conversation_context>>

\* the conditional edge out of extract_intent: should_check_weather is
\* applied
ApplyShouldCheckWeather(s) ==
  /\ turn[s].pc = "apply" /\ turn[s].kind = "should_check_weather"
  /\ turn' = [turn EXCEPT ![s].pc = should_check_weather(turn[s].state)]
  /\ UNCHANGED <<now, conversation_context>>

\* handle_time_clarification_response, lines 726-745: the combined message
\* is built from the stored intent and the reply
ApplyCombinedMessage(s) ==
  /\ turn[s].pc = "apply" /\ turn[s].kind = "combined_message"
  /\ turn' = [turn EXCEPT
       ![s].state.user_message =
          combined_message(turn[s].state.intent, Today, turn[s].msg),
       ![s].pc = "END"]
  /\ UNCHANGED <<now, conversation_context>>

\* format_datetime_human_readable is applied to the text of the turn; the
\* result is kept in msg
ApplyFormatDatetime(s) ==
  /\ turn[s].pc = "apply" /\ turn[s].kind = "format_datetime_human_readable"
  /\ turn' = [turn EXCEPT
       ![s].msg = format_datetime_human_readable(turn[s].state.user_message),
       ![s].pc = "END"]
  /\ UNCHANGED <<now, conversation_context>>

NextFunctions ==
  \/ ApplyWeatherAdvice(1)
  \/ ApplyShouldCheckWeather(1)
  \/ request_clarification_node(1)
  \/ ApplyCombinedMessage(1)
  \/ ApplyFormatDatetime(1)

SpecFunctions == InitFunctions /\ [][NextFunctions]_vars

\* ------------------------------------------------------------- properties
Last(seq) == seq[Len(seq)]

\* a workflow run of turn s has reached END
RunEnded(s) == turn[s].pc = "END"

\* turn s has stored or cleared its context after a workflow run that ended
AfterRun(s) ==
  /\ turn[s].pc = "done" /\ turn[s].kind \in {"fresh", "time_reply"}
  /\ turn[s].visited # <<>> /\ ~turn[s].raised

\* the workflow run of turn s went to request_clarification from extraction
UnclearIntentRun(s) ==
  /\ Last(turn[s].visited) = "request_clarification"
  /\ Len(turn[s].visited) = 2

\* the workflow run of turn s went to request_clarification from check_weather
\* with a rainy observation
RainyRun(s) ==
  /\ Last(turn[s].visited) = "request_clarification"
  /\ Len(turn[s].visited) = 3 /\ turn[s].visited[2] = "check_weather"
  /\ turn[s].state.weather.is_rainy

LowConfidenceOrUnknown(intent) ==
  intent.confidence <= 50 \/ intent.activity = "unknown"

\* C1, as stated: every run whose extracted intent has confidence <= 0.5 or
\* activity "unknown" ends in a clarification step with needs_clarification
\* set.
C1_AsStated ==
  \A s \in Slots :
     RunEnded(s) /\ LowConfidenceOrUnknown(turn[s].state.intent)
       => /\ Last(turn[s].visited) \in
               {"request_clarification", "request_time_clarification"}
          /\ turn[s].state.needs_clarification

\* C1, amended: every run whose extracted intent has confidence <= 0.5 or
\* activity "unknown" ends in a clarification step with needs_clarification
\* set, unless the activity is "casual conversation" with confidence <= 0.1:
\* that run ends in casual_conversation with needs_clarification unset.
C1_ClarifiesUnlessCasual ==
  \A s \in Slots :
     RunEnded(s) /\ LowConfidenceOrUnknown(turn[s].state.intent)
       => IF turn[s].state.intent.activity = "casual conversation"
               /\ turn[s].state.intent.confidence <= 10
            THEN /\ Last(turn[s].visited) = "casual_conversation"
                 /\ ~turn[s].state.needs_clarification
            ELSE /\ Last(turn[s].visited) \in
                      {"request_clarification", "request_time_clarification"}
                 /\ turn[s].state.needs_clarification

\* a run has ended in clarification on an intent of activity "unknown" held
\* with high confidence
C1_Witness ==
  \E s \in Slots :
     /\ RunEnded(s) /\ turn[s].state.intent.activity = "unknown"
     /\ turn[s].state.intent.confidence > 50
     /\ turn[s].state.needs_clarification

\* C2, as stated: after a successful time resolution the workflow run starts
\* at check_weather without running extract_intent, and the intent the run
\* works on is the resolver's corrected intent.
C2_AsStated ==
  \A s \in Slots :
     turn[s].kind = "time_reply" /\ turn[s].handed # NoIntent
       => /\ \A i \in 1..Len(turn[s].visited) : turn[s].visited[i] # "extract_intent"
          /\ turn[s].state.intent = turn[s].handed

\* C3, as stated: after a workflow run a time clarification is stored for
\* the chat exactly when the run ended in request_time_clarification.
C3_AsStated ==
  \A s \in Slots :
     AfterRun(s)
       => ( conversation_context[turn[s].chat].waiting_for = "time_clarification"
            <=> Last(turn[s].visited) = "request_time_clarification" )

\* C4: after a workflow run, of a fresh turn or of the time resolver, a
\* weather clarification is stored for the chat exactly when the run ended in
\* request_clarification reached from check_weather with a rainy observation.
C4_WeatherStoredIffRainyRun ==
  \A s \in Slots :
     AfterRun(s)
       => ( conversation_context[turn[s].chat].waiting_for = "weather_clarification"
            <=> RainyRun(s) )

\* the time resolver's run has ended rainy and its weather clarification is
\* stored in place of the time clarification
C4_Witness ==
  \E s \in Slots :
     /\ AfterRun(s) /\ turn[s].kind = "time_reply" /\ RainyRun(s)
     /\ conversation_context[turn[s].chat].waiting_for = "weather_clarification"

\* C5, as stated: after a run that ended in casual_conversation,
\* weather_query, create_event, or request_clarification reached from
\* extraction, the chat has no pending clarification.
C5_AsStated ==
  \A s \in Slots :
     AfterRun(s)
       /\ ( Last(turn[s].visited) \in
               {"casual_conversation", "weather_query", "create_event"}
            \/ UnclearIntentRun(s) )
       => conversation_context[turn[s].chat] = NoEntry

\* turn s has returned from handling a text that arrived while the chat's
\* weather clarification was pending and not yet expired
WeatherPendingHandled(s) ==
  /\ turn[s].pc = "done"
  /\ turn[s].entry0.waiting_for = "weather_clarification"
  /\ now - turn[s].entry0.timestamp <= ContextTTL

\* C6, as stated: with a weather clarification pending, the reply "1" has
\* create_event called with the original intent, "2" is answered by asking
\* for a new time, "3" by acknowledging the cancellation, and each clears the
\* pending entry.
C6_AsStated ==
  \A s \in Slots :
     WeatherPendingHandled(s)
       => /\ turn[s].msg = Msg1
               => /\ turn[s].calendar_calls = <<turn[s].entry0.original_intent>>
                  /\ conversation_context[turn[s].chat] = NoEntry
          /\ turn[s].msg = Msg2
               => /\ turn[s].replies = <<"reschedule_ask">>
                  /\ conversation_context[turn[s].chat] = NoEntry
          /\ turn[s].msg = Msg3
               => /\ turn[s].replies = <<"cancelled">>
                  /\ conversation_context[turn[s].chat] = NoEntry

\* the nine scheduling keywords of the specification
C7_Keywords ==
  { <<"w","a","n","t">>, <<"s","c","h","e","d","u","l","e">>, <<"p","l","a","n">>,
    <<"b","o","o","k">>, <<"a","t">>, <<"t","o","m","o","r","r","o","w">>,
    <<"t","o","d","a","y">>, <<"t","h","i","s">>, <<"n","e","x","t">> }

\* the text, lower-cased, contains a keyword and has more than three tokens
C7_NewRequestText(text) ==
  /\ \E k \in C7_Keywords : Contains(Lower(text), k)
  /\ SplitCount(text) > 3

\* C7: when an entry is pending after the sweep, handle_message discards it
\* and starts a fresh run at extract_intent exactly when the text contains a
\* scheduling keyword and has more than three tokens; otherwise the resolver
\* of the entry's kind handles the text and handle_message starts no run.
C7_NewRequestIffKeywordAndLong ==
  \A s \in Slots :
     turn[s].found # NoEntry
       => IF C7_NewRequestText(turn[s].msg)
            THEN /\ turn[s].kind = "fresh" /\ turn[s].override
                 /\ turn[s].visited = <<>> /\ turn[s].pc # "done"
                      => /\ turn[s].pc = "extract_intent"
                         /\ conversation_context[turn[s].chat] = NoEntry
            ELSE /\ turn[s].kind =
                      (IF turn[s].found.waiting_for = "time_clarification"
                         THEN "time_reply" ELSE "weather_reply")
                 /\ ~turn[s].override
                 /\ turn[s].context = turn[s].found

\* a pending entry has been discarded for a text that looks like a new
\* request, and the fresh run is about to start at extract_intent
C7_Witness ==
  \E s \in Slots :
     /\ turn[s].found # NoEntry /\ turn[s].kind = "fresh" /\ turn[s].override
     /\ turn[s].pc = "extract_intent"

\* C8, as stated: when a turn fails internally, one apology is sent and the
\* chat's pending entry is what it was when the turn began.
C8_AsStated ==
  \A s \in Slots :
     turn[s].pc = "done" /\ turn[s].raised
       => /\ Len(turn[s].replies) = 1
          /\ turn[s].replies[1] \in {"error_apology", "time_trouble"}
          /\ conversation_context[turn[s].chat] = turn[s].entry0

\* C9, as stated: every text of length >= 2 that was handled has had exactly
\* one reply, whatever failed in the turn.
C9_AsStated ==
  \A s \in Slots :
     turn[s].pc = "done" /\ turn[s].kind # "skipped"
       => Len(turn[s].replies) = 1

C11_WeatherQueryNeverScheduled ==
  \A s \in Slots :
     /\ turn[s].visited # <<>> /\ turn[s].state.intent.is_weather_query
          => /\ turn[s].pc \notin {"check_weather", "create_event"}
             /\ \A i \in 1..Len(turn[s].visited) :
                   turn[s].visited[i] \notin {"check_weather", "create_event"}
             /\ turn[s].calendar_calls = <<>>
     /\ \A i \in 1..Len(turn[s].calendar_calls) :
          ~turn[s].calendar_calls[i].is_weather_query

\* the time resolver, holding the entry an earlier run stored for an intent
\* with is_weather_query set, has had create_event called
C11_Witness ==
  \E s \in Slots :
     /\ turn[s].kind = "time_reply"
     /\ turn[s].context.original_intent.is_weather_query
     /\ turn[s].calendar_calls # <<>>

\* should_create_event has been applied to the state of turn s
Routed(s) ==
  /\ turn[s].pc \in {"create_event", "request_clarification"}
  /\ turn[s].visited = <<>>

\* C12: should_create_event returns create_event if and only if weather is
\* present and not rainy; for absent weather and for rainy weather it returns
\* request_clarification.
C12_CreateEventIffDryWeather ==
  \A s \in Slots :
     Routed(s)
       => /\ turn[s].pc = "create_event"
               <=> (turn[s].state.weather # NoWeather /\ ~turn[s].state.weather.is_rainy)
          /\ turn[s].state.weather = NoWeather \/ turn[s].state.weather.is_rainy
               => turn[s].pc = "request_clarification"

\* should_create_event has returned request_clarification for absent weather
C12_Witness ==
  \E s \in Slots :
     /\ Routed(s) /\ turn[s].state.weather = NoWeather
     /\ turn[s].pc = "request_clarification"

\* C13: the sweep handle_message starts with removes exactly the entries
\* older than 600 seconds: an entry aged 601 s is gone, an entry aged 599 s
\* or exactly 600 s is still there, and an entry that stays is unchanged.
C13_SweepRemovesExactlyExpired ==
  [][ \A s \in Slots :
        turn[s].pc = "idle" /\ turn'[s].pc # "idle" /\ turn'[s].kind # "skipped"
          => \A c \in Chats :
               LET entry == conversation_context[c]
                   swept == IF c = turn'[s].chat
                              THEN turn'[s].found ELSE conversation_context'[c]
               IN  swept = IF entry # NoEntry /\ now - entry.timestamp > 600
                             THEN NoEntry ELSE entry ]_vars

\* a message has arrived 601 s after the chat's entry was stored, and the
\* sweep has removed the entry
C13_Witness ==
  \E s \in Slots :
     /\ turn[s].kind = "fresh" /\ turn[s].pc = "extract_intent"
     /\ turn[s].entry0 # NoEntry /\ turn[s].found = NoEntry
     /\ now - turn[s].entry0.timestamp = 601

\* C14: in the time resolver, when the re-extracted date-time falls on
\* another date than the original one, the corrected intent has the original
\* date, the re-extracted hour and minute, and zero seconds; when the dates
\* are equal the re-extracted date-time is left as it is.
C14_CorrectedKeepsDateTakesTime ==
  \A s \in Slots :
     turn[s].kind = "time_reply" /\ turn[s].handed # NoIntent
       => LET original_intent == turn[s].context.original_intent
              updated_intent == turn[s].updated
              corrected == turn[s].handed
          IN  IF updated_intent.day # original_intent.day
                THEN /\ corrected.day = original_intent.day
                     /\ corrected.hour = updated_intent.hour
                     /\ corrected.minute = updated_intent.minute
                     /\ corrected.second = 0
                ELSE /\ corrected.day = updated_intent.day
                     /\ corrected.hour = updated_intent.hour
                     /\ corrected.minute = updated_intent.minute
                     /\ corrected.second = updated_intent.second

\* the resolver has corrected a re-extracted 18:30:45 of another date
C14_Witness ==
  \E s \in Slots :
     /\ turn[s].kind = "time_reply" /\ turn[s].handed # NoIntent
     /\ turn[s].updated.day # turn[s].context.original_intent.day
     /\ turn[s].updated.minute # 0 /\ turn[s].updated.second # 0
     /\ turn[s].handed.day = turn[s].context.original_intent.day
     /\ turn[s].handed.second = 0

\* C15: when the time resolver's re-extraction has no specific time or a
\* confidence of at most 0.7, the turn answers with the time re-ask alone,
\* starts no workflow run, calls neither the weather provider nor
\* create_event, and leaves the chat's entry as it found it; the same holds
\* for every later reply, until the sweep removes the entry.
C15_FailedTimeReplyKeepsEntry ==
  \A s \in Slots :
     /\ turn[s].kind = "time_reply" /\ turn[s].updated # NoIntent
     /\ ~turn[s].updated.has_specific_time \/ turn[s].updated.confidence <= 70
     => /\ turn[s].pc = "done" /\ turn[s].replies = <<"time_reask">>
        /\ turn[s].visited = <<>> /\ turn[s].handed = NoIntent
        /\ turn[s].weather_calls = 0 /\ turn[s].calendar_calls = <<>>
        /\ conversation_context[turn[s].chat] = turn[s].found
        /\ turn[s].found = turn[s].entry0
        /\ turn[s].found.waiting_for = "time_clarification"

\* a reply has failed on a re-extraction with a specific time held with
\* confidence 0.7, and the entry, by then 600 s old, is still what it was
C15_Witness ==
  \E s \in Slots :
     /\ turn[s].kind = "time_reply" /\ turn[s].pc = "done"
     /\ turn[s].updated.has_specific_time /\ turn[s].updated.confidence = 70
     /\ turn[s].replies = <<"time_reask">>
     /\ now - turn[s].found.timestamp = 600
     /\ conversation_context[turn[s].chat] = turn[s].found

\* the keyword sets of the specification for a reply about the weather
C16_ProceedWords ==
  { <<"1">>, <<"p","r","o","c","e","e","d">>, <<"y","e","s">>,
    <<"c","o","n","t","i","n","u","e">>, <<"a","n","y","w","a","y">> }
C16_RescheduleWords ==
  { <<"2">>, <<"r","e","s","c","h","e","d","u","l","e">>,
    <<"d","i","f","f","e","r","e","n","t">>, <<"l","a","t","e","r">>,
    <<"c","h","a","n","g","e">> }
C16_CancelWords ==
  { <<"3">>, <<"c","a","n","c","e","l">>, <<"n","o">>, <<"d","o","n","'","t">>,
    <<"s","k","i","p">> }

\* the text, lower-cased, contains a word of the set
C16_Has(text, words) == \E w \in words : Contains(Lower(text), w)

\* C16: when the weather resolver handles a reply, a reply with reschedule
\* words only gets the question for a new time and a reply with cancel words
\* only gets the acknowledgement, and either clears the chat's entry and has
\* no collaborator called; a reply with none of the words gets the
\* three-choice question again and leaves the entry as it was, however often
\* that happens. A text that arrives when the chat has no entry is handled
\* as a fresh request.
C16_WeatherReplyClearsOrReasks ==
  \A s \in Slots :
     /\ turn[s].kind = "weather_reply"
          => /\ turn[s].visited = <<>> /\ turn[s].updated = NoIntent
             /\ turn[s].weather_calls = 0
             /\ ( /\ C16_Has(turn[s].msg, C16_RescheduleWords)
                  /\ ~C16_Has(turn[s].msg, C16_ProceedWords)
                  /\ ~C16_Has(turn[s].msg, C16_CancelWords) )
                  => /\ turn[s].replies = <<"reschedule_ask">>
                     /\ turn[s].calendar_calls = <<>>
                     /\ conversation_context[turn[s].chat] = NoEntry
             /\ ( /\ C16_Has(turn[s].msg, C16_CancelWords)
                  /\ ~C16_Has(turn[s].msg, C16_ProceedWords)
                  /\ ~C16_Has(turn[s].msg, C16_RescheduleWords) )
                  => /\ turn[s].replies = <<"cancelled">>
                     /\ turn[s].calendar_calls = <<>>
                     /\ conversation_context[turn[s].chat] = NoEntry
             /\ ( /\ ~C16_Has(turn[s].msg, C16_ProceedWords)
                  /\ ~C16_Has(turn[s].msg, C16_RescheduleWords)
                  /\ ~C16_Has(turn[s].msg, C16_CancelWords) )
                  => /\ turn[s].replies = <<"choices_reask">>
                     /\ turn[s].calendar_calls = <<>>
                     /\ conversation_context[turn[s].chat] = turn[s].found
                     /\ turn[s].found = turn[s].entry0
     /\ turn[s].pc # "idle" /\ turn[s].kind # "skipped"
          /\ turn[s].entry0 = NoEntry
          => turn[s].kind = "fresh"

\* the weather resolver has answered "later" by asking for a new time and
\* has cleared the chat's entry
C16_Witness ==
  \E s \in Slots :
     /\ turn[s].kind = "weather_reply" /\ turn[s].msg = MsgLater
     /\ turn[s].replies = <<"reschedule_ask">>
     /\ turn[s].found # NoEntry
     /\ conversation_context[turn[s].chat] = NoEntry

\* the workflow run of turn s is over: it reached END or it raised
RunOver(s) == turn[s].pc \in {"END", "done"} /\ turn[s].visited # <<>>

\* C17, as stated: a run whose extracted intent has confidence > 0.5, an
\* activity other than "unknown" and "casual conversation", is_weather_query
\* unset and has_specific_time set, and whose weather is not rainy, visits
\* extract_intent, check_weather and create_event in that order, has
\* create_event called exactly once with that intent, and reports a created
\* event exactly when create_event returned success.
C17_AsStated ==
  \A s \in Slots :
     /\ RunOver(s)
     /\ turn[s].state.intent.confidence > 50
     /\ turn[s].state.intent.activity \notin {"unknown", "casual conversation"}
     /\ ~turn[s].state.intent.is_weather_query
     /\ turn[s].state.intent.has_specific_time
     /\ turn[s].state.weather # NoWeather /\ ~turn[s].state.weather.is_rainy
     => /\ turn[s].visited = <<"extract_intent", "check_weather", "create_event">>
        /\ turn[s].calendar_calls = <<turn[s].state.intent>>
        /\ turn[s].state.response_message = "scheduled"
             <=> turn[s].state.calendar_event_created

\* C18: when extract_intent fails in a fresh turn, the run goes on with the
\* intent of activity "unknown" and confidence 0, ends in
\* request_clarification with the generic message and needs_clarification
\* set, has neither the weather provider nor create_event called, and the
\* turn stores no clarification for the chat.
C18_FailedExtractionClarifies ==
  \A s \in Slots :
     /\ turn[s].kind = "fresh" /\ turn[s].visited # <<>>
     /\ turn[s].state.intent = FailedExtraction
     => /\ turn[s].state.intent.activity = "unknown"
        /\ turn[s].state.intent.confidence = 0
        /\ turn[s].pc \in {"request_clarification", "END", "done"}
        /\ turn[s].weather_calls = 0 /\ turn[s].calendar_calls = <<>>
        /\ ~turn[s].raised
        /\ conversation_context[turn[s].chat] = NoEntry
        /\ turn[s].pc \in {"END", "done"}
             => /\ turn[s].visited = <<"extract_intent", "request_clarification">>
                /\ turn[s].state.response_message = "generic_clarify"
                /\ turn[s].state.needs_clarification
        /\ turn[s].pc = "done" => turn[s].replies = <<"generic_clarify">>

\* a fresh turn whose extraction failed has answered with the generic
\* clarification and has returned to handle_message's end
C18_Witness ==
  \E s \in Slots :
     /\ turn[s].kind = "fresh" /\ turn[s].pc = "done"
     /\ turn[s].state.intent = FailedExtraction
     /\ turn[s].replies = <<"generic_clarify">>
     /\ conversation_context[turn[s].chat] = NoEntry

\* C19: when the weather provider fails during check_weather, the run works
\* on the fixed fallback observation, which is not rainy, and goes on to
\* create_event: it does not end in request_clarification, sets no
\* needs_clarification, and no weather clarification is stored for the chat.
C19_WeatherFailureProceeds ==
  \A s \in Slots :
     /\ Len(turn[s].visited) >= 2 /\ turn[s].visited[2] = "check_weather"
     /\ turn[s].state.weather = FallbackWeather
     => /\ ~turn[s].state.weather.is_rainy
        /\ turn[s].state.weather.temperature = 25
        /\ turn[s].state.weather.description = "clear sky"
        /\ turn[s].weather_calls = 1
        /\ turn[s].pc \in {"create_event", "END", "done"}
        /\ Len(turn[s].visited) >= 3
             => turn[s].visited = <<"extract_intent", "check_weather", "create_event">>
        /\ ~turn[s].state.needs_clarification
        /\ conversation_context[turn[s].chat].waiting_for # "weather_clarification"

\* a run whose forecast failed has gone through create_event on the
\* fallback observation and has ended
C19_Witness ==
  \E s \in Slots :
     /\ RunEnded(s) /\ turn[s].state.weather = FallbackWeather
     /\ turn[s].visited = <<"extract_intent", "check_weather", "create_event">>
     /\ turn[s].state.response_message = "scheduled"

\* the nodes with an edge to END
TerminalSteps ==
  {"create_event", "weather_query", "request_time_clarification",
   "request_clarification", "casual_conversation"}

\* the workflow run of turn s is under way
InRun(s) == turn[s].pc \in TerminalSteps \cup {"extract_intent", "check_weather"}

\* the run of turn s, as far as it has come, is a single pass
SinglePass(s) ==
  LET visited == turn[s].visited
  IN  /\ visited # <<>> => visited[1] = "extract_intent"
      /\ Len(visited) <= 3
      /\ \A i, j \in 1..Len(visited) : i # j => visited[i] # visited[j]
      /\ \A i \in 1..Len(visited) : i < Len(visited) => visited[i] \notin TerminalSteps
      /\ InRun(s)
           => /\ turn[s].state.response_message = ""
              /\ \A i \in 1..Len(visited) : visited[i] \notin TerminalSteps
              /\ turn[s].pc \notin {visited[i] : i \in 1..Len(visited)}
      /\ RunEnded(s)
           => /\ Last(visited) \in TerminalSteps
              /\ turn[s].state.response_message # ""

\* C20: every workflow run whose collaborator calls return is a single pass
\* that ends: extract_intent is the first step, no step is run twice, at
\* most three steps are run, only the last step is a terminal one, and the
\* response is set once, by that step; and a run under way reaches END.
C20_SinglePassTerminates ==
  /\ [](\A s \in Slots : ~turn[s].raised => SinglePass(s))
  /\ \A s \in Slots : InRun(s) ~> (RunEnded(s) \/ turn[s].raised)

\* a run of three steps has ended with its response set
C20_Witness ==
  \E s \in Slots :
     /\ RunEnded(s) /\ Len(turn[s].visited) = 3
     /\ turn[s].state.response_message = "rain_choices"

\* C21: a run whose extracted intent has activity "casual conversation" and
\* confidence <= 0.1 ends in casual_conversation with needs_clarification
\* unset and a casual answer (the greeting for "hello"), and has neither the
\* weather provider nor create_event called.
C21_CasualRunCallsNothing ==
  \A s \in Slots :
     /\ turn[s].visited # <<>>
     /\ turn[s].state.intent.activity = "casual conversation"
     /\ turn[s].state.intent.confidence <= 10
     => /\ turn[s].pc \in {"casual_conversation", "END", "done"}
        /\ turn[s].weather_calls = 0 /\ turn[s].calendar_calls = <<>>
        /\ turn[s].state.weather = NoWeather
        /\ ~turn[s].state.needs_clarification /\ ~turn[s].raised
        /\ turn[s].pc \in {"END", "done"}
             => /\ turn[s].visited = <<"extract_intent", "casual_conversation">>
                /\ turn[s].state.response_message \in
                     {"casual_greeting", "casual_doing_great", "casual_welcome",
                      "casual_generic"}
                /\ turn[s].state.user_message = MsgHello
                     => turn[s].state.response_message = "casual_greeting"

\* the run on "hello", extracted as casual conversation with confidence 0.1,
\* has ended with the greeting
C21_Witness ==
  \E s \in Slots :
     /\ RunEnded(s) /\ turn[s].state.user_message = MsgHello
     /\ turn[s].state.intent.activity = "casual conversation"
     /\ turn[s].state.intent.confidence <= 10
     /\ turn[s].state.response_message = "casual_greeting"
     /\ ~turn[s].state.needs_clarification

\* the four advisory lines of a weather report
C22_Advisories ==
  {"weather_report_umbrella", "weather_report_hot", "weather_report_cool",
   "weather_report_great"}

\* C22: a run routed to weather_query has the weather provider called
\* exactly once and nothing else, ends with that step, leaves
\* needs_clarification unset, and its response is the weather report with
\* one of the four advisory lines.
C22_WeatherQueryRun ==
  \A s \in Slots :
     /\ turn[s].pc = "weather_query"
          => /\ turn[s].weather_calls = 0
             /\ turn[s].visited = <<"extract_intent">>
     /\ (\E i \in 1..Len(turn[s].visited) : turn[s].visited[i] = "weather_query")
          => /\ turn[s].visited = <<"extract_intent", "weather_query">>
             /\ turn[s].pc \in {"END", "done"}
             /\ turn[s].weather_calls = 1 /\ turn[s].calendar_calls = <<>>
             /\ turn[s].state.weather # NoWeather
             /\ ~turn[s].state.needs_clarification /\ ~turn[s].raised
             /\ turn[s].state.response_message \in C22_Advisories
             /\ turn[s].pc = "done"
                  => /\ Len(turn[s].replies) = 1
                     /\ Last(turn[s].replies) \in C22_Advisories

\* a weather query has been answered with the report for a rainy
\* observation
C22_Witness ==
  \E s \in Slots :
     /\ RunEnded(s) /\ Last(turn[s].visited) = "weather_query"
     /\ turn[s].state.intent.is_weather_query
     /\ turn[s].state.weather.is_rainy
     /\ turn[s].state.response_message = "weather_report_umbrella"

\* C23: the advice of a weather report is the umbrella line when the
\* observation is rainy, whatever the temperature; otherwise the heat line
\* above 30 degrees, the jacket line below 20 degrees, and the neutral line
\* from exactly 20 to exactly 30 degrees.
C23_AdviceByThresholds ==
  \A s \in Slots :
     turn[s].kind = "weather_advice" /\ turn[s].pc = "END"
       => LET weather == turn[s].state.weather
              advice == turn[s].state.response_message
          IN  /\ weather.is_rainy => advice = "weather_report_umbrella"
              /\ ~weather.is_rainy /\ weather.temperature > 30
                   => advice = "weather_report_hot"
              /\ ~weather.is_rainy /\ weather.temperature < 20
                   => advice = "weather_report_cool"
              /\ ~weather.is_rainy /\ weather.temperature >= 20
                                   /\ weather.temperature <= 30
                   => advice = "weather_report_great"

\* a dry observation of exactly 30 degrees has been given the neutral line
C23_Witness ==
  \E s \in Slots :
     /\ turn[s].kind = "weather_advice" /\ turn[s].pc = "END"
     /\ ~turn[s].state.weather.is_rainy /\ turn[s].state.weather.temperature = 30
     /\ turn[s].state.response_message = "weather_report_great"

\* C24: an update without text, with an empty text, or whose stripped text
\* is shorter than 2 characters is dropped, and no other update is: the
\* sweep does not run, so the chat's entry stays as it was even when it has
\* expired, no workflow runs, no collaborator is called and no reply is
\* sent.
C24_ShortUpdateDropped ==
  \A s \in Slots :
     turn[s].pc # "idle"
       => /\ Len(turn[s].msg) < 2 <=> turn[s].kind = "skipped"
          /\ turn[s].kind = "skipped"
               => /\ turn[s].pc = "done"
                  /\ turn[s].replies = <<>> /\ turn[s].visited = <<>>
                  /\ turn[s].weather_calls = 0 /\ turn[s].calendar_calls = <<>>
                  /\ turn[s].updated = NoIntent
                  /\ turn[s].state.intent = NoIntent
                  /\ conversation_context[turn[s].chat] = turn[s].entry0

\* a one-character text has been dropped while the chat's entry, older than
\* 600 s, stays in the store
C24_Witness ==
  \E s \in Slots :
     /\ turn[s].kind = "skipped" /\ Len(turn[s].msg) = 1
     /\ turn[s].entry0 # NoEntry /\ now - turn[s].entry0.timestamp > 600
     /\ conversation_context[turn[s].chat] = turn[s].entry0

\* C25: the store holds at most one entry per chat, of kind TIME or WEATHER,
\* and a write of an entry for a chat replaces what was there as a whole:
\* the new entry has the kind written, the intent and (for WEATHER) the
\* observation of the run that just ended, and the time of the write,
\* whatever the entry before was.
C25_OneEntryReplacedWhole ==
  /\ [](\A c \in Chats :
          /\ DOMAIN conversation_context = Chats
          /\ conversation_context[c].waiting_for \in
               {"None", "time_clarification", "weather_clarification"}
          /\ conversation_context[c].waiting_for = "None"
               <=> conversation_context[c] = NoEntry)
  /\ [][ \A c \in Chats :
          conversation_context'[c] # conversation_context[c]
            /\ conversation_context'[c] # NoEntry
          => \E s \in Slots :
               /\ turn[s].chat = c /\ turn[s].pc = "END" /\ turn'[s].pc = "done"
               /\ conversation_context'[c].timestamp = now
               /\ conversation_context'[c].original_intent = turn[s].state.intent
               /\ \/ /\ conversation_context'[c].waiting_for = "time_clarification"
                     /\ conversation_context'[c].weather = NoWeather
                  \/ /\ conversation_context'[c].waiting_for = "weather_clarification"
                     /\ conversation_context'[c].weather = turn[s].state.weather
                     /\ turn[s].state.weather.is_rainy ]_vars

\* the time resolver has replaced the TIME entry it found by a WEATHER entry
\* with another intent and a later time
C25_Witness ==
  \E s \in Slots :
     /\ turn[s].kind = "time_reply" /\ turn[s].pc = "done"
     /\ turn[s].found.waiting_for = "time_clarification"
     /\ conversation_context[turn[s].chat].waiting_for = "weather_clarification"
     /\ conversation_context[turn[s].chat].timestamp > turn[s].found.timestamp
     /\ conversation_context[turn[s].chat].original_intent
          # turn[s].found.original_intent

\* should_check_weather has been applied to the state of turn s
RoutedAfterExtraction(s) ==
  turn[s].kind = "should_check_weather" /\ turn[s].pc # "apply"

\* the step should_check_weather chose for turn s
RouteTaken(s) ==
  IF turn[s].visited # <<>> THEN turn[s].visited[1] ELSE turn[s].pc

\* C26: should_check_weather gives a step for every intent and changes
\* nothing: request_clarification for an absent intent; casual_conversation
\* for activity "casual conversation" with confidence <= 0.1; otherwise,
\* with confidence > 0.5 and an activity other than "unknown" and "casual
\* conversation", weather_query if is_weather_query, else
\* request_time_clarification if not has_specific_time, else check_weather;
\* and request_clarification in every case left.
C26_RouteTable ==
  \A s \in Slots :
     RoutedAfterExtraction(s)
       => LET intent == turn[s].state.intent
              route == RouteTaken(s)
              casual == /\ intent # NoIntent
                        /\ intent.activity = "casual conversation"
                        /\ intent.confidence <= 10
              clear == /\ intent # NoIntent /\ ~casual
                       /\ intent.confidence > 50
                       /\ intent.activity # "unknown"
                       /\ intent.activity # "casual conversation"
          IN  /\ intent = NoIntent => route = "request_clarification"
              /\ casual => route = "casual_conversation"
              /\ clear /\ intent.is_weather_query => route = "weather_query"
              /\ clear /\ ~intent.is_weather_query /\ ~intent.has_specific_time
                   => route = "request_time_clarification"
              /\ clear /\ ~intent.is_weather_query /\ intent.has_specific_time
                   => route = "check_weather"
              /\ intent # NoIntent /\ ~casual /\ ~clear
                   => route = "request_clarification"
              /\ turn[s].state.weather = NoWeather
              /\ turn[s].state.user_message = MsgGoForARun
              /\ conversation_context[1] = NoEntry

\* should_check_weather has sent an absent intent to request_clarification
C26_Witness ==
  \E s \in Slots :
     /\ RoutedAfterExtraction(s) /\ turn[s].state.intent = NoIntent
     /\ turn[s].pc = "request_clarification"

\* C27: request_clarification_node writes the generic message exactly when
\* the intent is absent, or has confidence <= 0.5, or has activity
\* "unknown"; in every other case it writes the three-choice message about
\* rain; in both cases it sets needs_clarification.
C27_ClarificationMessageByCause ==
  \A s \in Slots :
     turn[s].visited # <<>> /\ Last(turn[s].visited) = "request_clarification"
       => LET intent == turn[s].state.intent
              unclear == \/ intent = NoIntent
                         \/ intent.confidence <= 50
                         \/ intent.activity = "unknown"
          IN  /\ turn[s].state.response_message = "generic_clarify" <=> unclear
              /\ ~unclear => turn[s].state.response_message = "rain_choices"
              /\ turn[s].state.needs_clarification

\* request_clarification_node has written the generic message for an absent
\* intent
C27_Witness ==
  \E s \in Slots :
     /\ turn[s].kind = "request_clarification_node" /\ turn[s].pc = "END"
     /\ turn[s].state.intent = NoIntent
     /\ turn[s].state.response_message = "generic_clarify"
     /\ turn[s].state.needs_clarification

\* C28, as stated: the three-choice question about rain is written or sent
\* only in a turn whose run went through check_weather and got a rainy
\* observation.
C28_AsStated ==
  \A s \in Slots :
     \/ turn[s].state.response_message = "rain_choices"
     \/ \E i \in 1..Len(turn[s].replies) : turn[s].replies[i] = "rain_choices"
     => /\ Len(turn[s].visited) >= 2 /\ turn[s].visited[2] = "check_weather"
        /\ turn[s].weather_calls = 1
        /\ turn[s].state.weather # NoWeather /\ turn[s].state.weather.is_rainy

\* C29, as stated: when the reply that ends a turn is the time question or
\* the time re-ask, a time clarification is stored for the chat at the end
\* of the turn, and when it is the three-choice question or its re-ask, a
\* weather clarification is.
C29_AsStated ==
  \A s \in Slots :
     turn[s].pc = "done" /\ turn[s].replies # <<>>
       => /\ Last(turn[s].replies) \in {"time_question", "time_reask"}
               => conversation_context[turn[s].chat].waiting_for
                    = "time_clarification"
          /\ Last(turn[s].replies) \in {"rain_choices", "choices_reask"}
               => conversation_context[turn[s].chat].waiting_for
                    = "weather_clarification"

\* C30: create_event is called only (a) by create_calendar_event_node in a
\* run in which check_weather, just before, got an observation that is
\* present and not rainy, with the intent of that run, or (b) by the weather
\* resolver answering a reply with a proceed word to a stored weather
\* clarification, with the intent stored; the calendar client is not reached
\* for in any other turn.
C30_CalendarOnlyWhenDryOrProceed ==
  \A s \in Slots :
     /\ turn[s].calendar_calls # <<>>
          => /\ Len(turn[s].calendar_calls) = 1
             /\ \/ /\ turn[s].kind \in {"fresh", "time_reply"}
                   /\ turn[s].visited =
                        <<"extract_intent", "check_weather", "create_event">>
                   /\ turn[s].calendar_calls[1] = turn[s].state.intent
                \/ /\ turn[s].kind = "weather_reply"
                   /\ turn[s].found.waiting_for = "weather_clarification"
                   /\ turn[s].found.weather.is_rainy
                   /\ C16_Has(turn[s].msg, C16_ProceedWords)
                   /\ turn[s].calendar_calls[1] = turn[s].found.original_intent
     /\ \/ turn[s].pc = "create_event"
        \/ \E i \in 1..Len(turn[s].visited) : turn[s].visited[i] = "create_event"
        => /\ Len(turn[s].visited) >= 2 /\ turn[s].visited[2] = "check_weather"
           /\ turn[s].weather_calls = 1
           /\ turn[s].state.weather # NoWeather
           /\ ~turn[s].state.weather.is_rainy
     /\ turn[s].kind = "weather_reply" /\ turn[s].raised
          => C16_Has(turn[s].msg, C16_ProceedWords)
     /\ turn[s].kind \in {"none", "skipped"} => turn[s].calendar_calls = <<>>

\* the weather resolver has had create_event called with the stored intent
\* after a reply to proceed despite the rain
C30_Witness ==
  \E s \in Slots :
     /\ turn[s].kind = "weather_reply"
     /\ turn[s].found.weather.is_rainy
     /\ turn[s].calendar_calls = <<turn[s].found.original_intent>>
     /\ turn[s].replies = <<"scheduled_despite_weather">>

\* C31: create_event is called at most once in a turn. In a workflow run
\* create_event is the last step and is taken once; when create_event
\* returned False the run ends with the failure message and
\* calendar_event_created unset, and the turn sends that message as its one
\* reply; the weather resolver, after its one call, sends the success or the
\* failure message as its one reply.
C31_CalendarOnceNoRetry ==
  \A s \in Slots :
     /\ Len(turn[s].calendar_calls) <= 1
     /\ turn[s].calendar_calls # <<>> /\ turn[s].kind \in {"fresh", "time_reply"}
          => /\ Last(turn[s].visited) = "create_event"
             /\ Cardinality({i \in 1..Len(turn[s].visited) :
                               turn[s].visited[i] = "create_event"}) = 1
             /\ turn[s].pc \in {"END", "done"}
             /\ turn[s].state.response_message =
                  IF turn[s].state.calendar_event_created
                    THEN "scheduled" ELSE "event_failed"
             /\ turn[s].pc = "done"
                  => turn[s].replies = <<turn[s].state.response_message>>
     /\ turn[s].calendar_calls # <<>> /\ turn[s].kind = "weather_reply"
          => /\ turn[s].pc = "done"
             /\ turn[s].replies \in
                  {<<"scheduled_despite_weather">>, <<"event_failed">>}

\* a fresh turn has ended with the failure message after the one call of
\* create_event returned False
C31_Witness ==
  \E s \in Slots :
     /\ turn[s].kind = "fresh" /\ turn[s].pc = "done"
     /\ Len(turn[s].calendar_calls) = 1
     /\ ~turn[s].state.calendar_event_created
     /\ turn[s].replies = <<"event_failed">>

\* C32: the timestamp of a stored entry changes only when a run that just
\* ended writes a new entry in its place, never by a re-ask or another step
\* of a resolver; a resolver is given only an entry that is in the store
\* after the sweep and is at most 600 seconds old when the message is taken;
\* and a message taken more than 600 seconds after the chat's entry was
\* stored is not handled as a reply: it is skipped, or handled as a fresh
\* request with the entry removed.
C32_ReplyOnlyWithinTTL ==
  [][ /\ \A c \in Chats :
           /\ conversation_context[c] # NoEntry
           /\ conversation_context'[c] # NoEntry
           /\ conversation_context'[c] # conversation_context[c]
           => \E s \in Slots :
                /\ turn[s].chat = c /\ turn[s].kind = "time_reply"
                /\ turn[s].pc = "END" /\ turn'[s].pc = "done"
                /\ conversation_context[c].waiting_for = "time_clarification"
                /\ conversation_context'[c].waiting_for = "weather_clarification"
                /\ conversation_context'[c].timestamp = now
      /\ \A s \in Slots :
           turn[s].pc = "idle" /\ turn'[s].pc # "idle"
           => /\ turn'[s].kind \in {"time_reply", "weather_reply"}
                   => /\ turn'[s].found # NoEntry
                      /\ turn'[s].found = conversation_context[turn'[s].chat]
                      /\ now - turn'[s].found.timestamp <= ContextTTL
              /\ /\ turn'[s].entry0 # NoEntry
                 /\ now - turn'[s].entry0.timestamp > ContextTTL
                 => /\ turn'[s].kind \in {"fresh", "skipped"}
                    /\ turn'[s].kind = "fresh"
                         => /\ turn'[s].found = NoEntry
                            /\ conversation_context'[turn'[s].chat] = NoEntry
    ]_vars

\* the reply "proceed" has arrived more than 600 seconds after the weather
\* clarification was stored, the entry was swept and the text was handled as
\* a fresh request
C32_Witness ==
  \E s \in Slots :
     /\ turn[s].kind = "fresh" /\ turn[s].msg = MsgProceed
     /\ turn[s].entry0.waiting_for = "weather_clarification"
     /\ now - turn[s].entry0.timestamp > ContextTTL
     /\ turn[s].found = NoEntry /\ ~turn[s].override
     /\ turn[s].visited # <<>>

\* a step changes the entry of a chat only when it is a step of a turn of
\* that chat, or when it is the sweep of a message just taken and the entry
\* is more than 600 seconds old; and a turn is given no entry but its own
\* chat's
C33_OtherChatUntouched ==
  [][ /\ \A c \in TwoChats :
           conversation_context'[c] # conversation_context[c]
           => \/ \E s \in Slots : turn'[s] # turn[s] /\ turn'[s].chat = c
              \/ /\ conversation_context'[c] = NoEntry
                 /\ now - conversation_context[c].timestamp > ContextTTL
                 /\ \E s \in Slots : turn[s].pc = "idle" /\ turn'[s].pc # "idle"
      /\ \A s \in Slots :
           turn[s].pc = "idle" /\ turn'[s].pc # "idle"
           => /\ turn'[s].entry0 = conversation_context[turn'[s].chat]
              /\ turn'[s].found \in {NoEntry, conversation_context[turn'[s].chat]}
              /\ turn'[s].context \in {NoEntry, conversation_context[turn'[s].chat]}
    ]_vars

C35_WeatherEntriesWellFormed ==
  \A c \in Chats :
     conversation_context[c].waiting_for = "weather_clarification"
     => /\ conversation_context[c].weather # NoWeather
        /\ conversation_context[c].weather.is_rainy
        /\ conversation_context[c].original_intent.confidence > 50
        /\ conversation_context[c].original_intent.has_specific_time
        /\ ~conversation_context[c].original_intent.is_weather_query
        /\ conversation_context[c].original_intent.activity
             \notin {"unknown", "casual conversation"}

\* C35, as stated: every stored weather clarification holds a rainy
\* observation and an intent with confidence > 0.5, has_specific_time set,
\* is_weather_query unset and an activity other than "unknown" and "casual
\* conversation"; every stored time clarification holds an intent with
\* confidence > 0.5, has_specific_time unset and an activity other than
\* "unknown" and "casual conversation".
C35_AsStated ==
  /\ C35_WeatherEntriesWellFormed
  /\ \A c \in Chats :
        conversation_context[c].waiting_for = "time_clarification"
        => /\ conversation_context[c].original_intent.confidence > 50
           /\ ~conversation_context[c].original_intent.has_specific_time
           /\ conversation_context[c].original_intent.activity
                \notin {"unknown", "casual conversation"}

\* the way the weather resolver handled the reply of turn s, read from what
\* the turn did
C36_HandledAs(s) ==
  { k \in {"proceed", "reschedule", "cancel", "unclear"} :
      \/ k = "proceed" /\ (turn[s].calendar_calls # <<>> \/ turn[s].raised)
      \/ k = "reschedule" /\ turn[s].replies = <<"reschedule_ask">>
      \/ k = "cancel" /\ turn[s].replies = <<"cancelled">>
      \/ k = "unclear" /\ turn[s].replies = <<"choices_reask">> }

\* C36: the weather resolver handles a reply in exactly one of four ways,
\* chosen by testing the lower-cased reply for a proceed word, then for a
\* reschedule word, then for a cancel word, as substrings: a reply with a
\* proceed word is handled as proceed also when it has a cancel or a
\* reschedule word, a reply with a reschedule word and no proceed word as
\* reschedule also when it has a cancel word, a reply with a cancel word
\* only as cancel, and a reply with none as unrecognized.
C36_FirstMatchingSetWins ==
  \A s \in Slots :
     turn[s].kind = "weather_reply"
     => LET p == C16_Has(turn[s].msg, C16_ProceedWords)
            r == C16_Has(turn[s].msg, C16_RescheduleWords)
            c == C16_Has(turn[s].msg, C16_CancelWords)
        IN  /\ Cardinality(C36_HandledAs(s)) = 1
            /\ Len(turn[s].replies) <= 1
            /\ C36_HandledAs(s) =
                 IF p THEN {"proceed"}
                 ELSE IF r THEN {"reschedule"}
                 ELSE IF c THEN {"cancel"}
                 ELSE {"unclear"}

\* the reply "yes or no", which has a proceed word and a cancel word, has
\* been handled as proceed: create_event was called with the stored intent
C36_Witness ==
  \E s \in Slots :
     /\ turn[s].kind = "weather_reply" /\ turn[s].msg = MsgYesOrNo
     /\ C16_Has(turn[s].msg, C16_ProceedWords)
     /\ C16_Has(turn[s].msg, C16_CancelWords)
     /\ turn[s].calendar_calls = <<turn[s].found.original_intent>>
     /\ conversation_context[turn[s].chat] = NoEntry

\* the weather resolver of turn s took a reply with a proceed word
C37_ProceedReply(s) ==
  /\ turn[s].kind = "weather_reply" /\ turn[s].pc = "done"
  /\ C16_Has(turn[s].msg, C16_ProceedWords)

\* when authenticate returns, the proceed reply has create_event called with
\* the stored intent and no weather looked up, the success or failure message
\* sent, and the chat's entry cleared
C37_ClearedWhenCalendarReturns ==
  \A s \in Slots :
     C37_ProceedReply(s) /\ ~turn[s].raised
     => /\ turn[s].calendar_calls = <<turn[s].found.original_intent>>
        /\ turn[s].weather_calls = 0 /\ turn[s].visited = <<>>
        /\ turn[s].replies \in {<<"scheduled_despite_weather">>, <<"event_failed">>}
        /\ conversation_context[turn[s].chat] = NoEntry

\* C37, as stated: after a reply with a proceed word to a stored weather
\* clarification, create_event has been called with the stored intent, no
\* weather has been looked up, and the chat's entry is cleared whether the
\* calendar call succeeded or failed.
C37_AsStated ==
  \A s \in Slots :
     C37_ProceedReply(s)
     => /\ turn[s].calendar_calls = <<turn[s].found.original_intent>>
        /\ turn[s].weather_calls = 0
        /\ conversation_context[turn[s].chat] = NoEntry

\* C38: when a workflow run has ended, needs_clarification is set exactly
\* when the last step was request_time_clarification or
\* request_clarification, and calendar_event_created is set exactly when the
\* last step was create_event and the run reports the event as created;
\* then create_event was called with the run's intent.
C38_FlagsMatchTerminalStep ==
  \A s \in Slots :
     RunEnded(s) \/ AfterRun(s)
     => /\ turn[s].state.needs_clarification
             <=> Last(turn[s].visited) \in
                   {"request_time_clarification", "request_clarification"}
        /\ turn[s].state.calendar_event_created
             <=> /\ Last(turn[s].visited) = "create_event"
                 /\ turn[s].state.response_message = "scheduled"
        /\ turn[s].state.calendar_event_created
             => turn[s].calendar_calls = <<turn[s].state.intent>>
        /\ Last(turn[s].visited) = "create_event"
             => turn[s].state.response_message \in {"scheduled", "event_failed"}

\* a run has ended in request_time_clarification with needs_clarification
\* set and calendar_event_created unset
C38_Witness ==
  \E s \in Slots :
     /\ RunEnded(s) /\ Last(turn[s].visited) = "request_time_clarification"
     /\ turn[s].state.needs_clarification
     /\ ~turn[s].state.calendar_event_created

\* the weekday d days from today, today being a Monday as WeekdayName has it
C39_WeekdayAt(d) ==
  CASE d \in {-7, 7} -> <<"M","o","n","d","a","y">>
    [] d \in {-6, 8} -> <<"T","u","e","s","d","a","y">>
    [] d \in {-5, 2, 9} -> <<"W","e","d","n","e","s","d","a","y">>
    [] d \in {-4, 3} -> <<"T","h","u","r","s","d","a","y">>
    [] d \in {-3, 4} -> <<"F","r","i","d","a","y">>
    [] d \in {-9, -2, 5} -> <<"S","a","t","u","r","d","a","y">>
    [] d \in {-8, 6} -> <<"S","u","n","d","a","y">>

C39_DateReference(d) ==
  CASE d = 0 -> <<"t","o","d","a","y">>
    [] d = 1 -> <<"t","o","m","o","r","r","o","w">>
    [] d = -1 -> <<"y","e","s","t","e","r","d","a","y">>
    [] OTHER -> C39_WeekdayAt(d)

\* C39: the combined message the time resolver sends to extraction is
\* "I want to {activity} {date reference} at {reply}", where, d being the
\* number of days from today's date to the date of the stored intent, the
\* date reference is "today" for d = 0, "tomorrow" for d = 1, "yesterday"
\* for d = -1 and the name of the weekday of the stored date for every
\* other d.
C39_DateReferenceByDayDifference ==
  \A s \in Slots :
     turn[s].kind = "combined_message" /\ turn[s].pc = "END"
     => turn[s].state.user_message =
          <<"I"," ","w","a","n","t"," ","t","o"," ">>
            \o (IF turn[s].state.intent.activity = "run"
                  THEN <<"r","u","n">> ELSE <<"u","n","k","n","o","w","n">>)
            \o <<" ">> \o C39_DateReference(turn[s].state.intent.day - Today)
            \o <<" ","a","t"," ">> \o turn[s].msg

\* the combined message for a run dated two days from today and the reply
\* "3pm" has been built with the weekday name
C39_Witness ==
  \E s \in Slots :
     /\ turn[s].kind = "combined_message" /\ turn[s].pc = "END"
     /\ turn[s].state.intent.day - Today = 2
     /\ turn[s].state.user_message =
          <<"I"," ","w","a","n","t"," ","t","o"," ","r","u","n"," ",
            "W","e","d","n","e","s","d","a","y"," ","a","t"," ","3","p","m">>

\* the text carries a time of day: "..., H:MM AM" or "..., H:MM PM"
C40_ShowsTime(text) ==
  /\ Contains(text, <<",", " ">>) /\ Contains(text, <<":">>)
  /\ Contains(text, <<" ","A","M">>) \/ Contains(text, <<" ","P","M">>)

\* the text is a date alone: day, month name and year, and nothing of a time
C40_DateOnly(text) ==
  /\ Contains(text, <<"M","a","y"," ","2","0","2","5">>)
       \/ Contains(text, <<"D","e","c","e","m","b","e","r"," ","2","0","2","5">>)
  /\ ~Contains(text, <<",">>) /\ ~Contains(text, <<":">>)
  /\ ~Contains(text, <<"A","M">>) /\ ~Contains(text, <<"P","M">>)

\* C40: format_datetime_human_readable gives the date alone exactly when the
\* hour and the minute of the parsed date-time are both zero, whatever the
\* seconds, and the date with the time of day otherwise; for a text that does
\* not parse it gives the text back unchanged.
C40_TimeOmittedIffMidnight ==
  \A s \in Slots :
     turn[s].kind = "format_datetime_human_readable" /\ turn[s].pc = "END"
     => IF turn[s].state.intent = NoIntent
          THEN turn[s].msg = turn[s].state.user_message
          ELSE /\ turn[s].msg # turn[s].state.user_message
               /\ C40_DateOnly(turn[s].msg)
                    <=> /\ turn[s].state.intent.hour = 0
                        /\ turn[s].state.intent.minute = 0
               /\ C40_ShowsTime(turn[s].msg) <=> ~C40_DateOnly(turn[s].msg)

\* "2025-05-28T00:00:45", a time with hour and minute zero, has been
\* formatted as the date alone
C40_Witness ==
  \E s \in Slots :
     /\ turn[s].kind = "format_datetime_human_readable" /\ turn[s].pc = "END"
     /\ turn[s].state.user_message = isoformat(2025, 5, 28, 0, 0, 45)
     /\ turn[s].state.intent.has_specific_time
     /\ turn[s].msg = <<"2","8"," ","M","a","y"," ","2","0","2","5">>

====
